---- MODULE Spec2Model ----
(***************************************************************************)
(* A model of the instock batch pipeline: the calendar-aware schedule      *)
(* driver (lib/run_template.py, lib/trade_time.py), the process-wide       *)
(* singleton caches (lib/singleton_type.py, core/singleton_stock.py), the  *)
(* strategy fan-out (job/strategy_data_daily_job.py), the strategy         *)
(* predicates (core/strategy/*.py), the forward-return computation         *)
(* (core/backtest/rate_stats.py), the backtest runs                        *)
(* (job/backtest_data_daily_job.py) and the save_nph jobs                  *)
(* (job/basic_data_daily_job.py).                                          *)
(*                                                                         *)
(* Dates are day numbers; DateMin stands for datetime.date.min, below      *)
(* which date arithmetic raises OverflowError.  Clock times are minutes    *)
(* since midnight.                                                         *)
(***************************************************************************)
EXTENDS Integers, Sequences, FiniteSets, TLC

VARIABLES
    \* ---- schedule driver (run_with_args) ----
    argv,        \* sys.argv[1:] : [mode, start, end, dates]
    calFetch,    \* what stf.fetch_stocks_trade_date() yields in this process
    calInst,     \* stock_trade_date._instance
    now,         \* datetime.datetime.now(): [date, clock]
    fn,          \* run_fun.__name__ class
    pc,          \* position inside run_with_args
    run_date,    \* loop variable of range mode
    idx,         \* loop index of list mode
    submitted,   \* dates handed to executor.submit, in order
    called,      \* direct calls run_fun(date, ...) of implicit mode
    resolved,    \* what get_trade_date_last returned in implicit mode
    logged,      \* run_with_args caught an exception and logged it
    job_kind,    \* the data the job needs: finalized end-of-day or latest snapshot
    failDate,    \* the date for which the job's own work fails, NoDay for none
    finished,    \* the calls of run_fun that have ended: [date, result], in order
    \* ---- singleton caches (singleton_type, stock_data, stock_hist_data) ----
    lockOwner,   \* thread holding singleton_type.single_lock, 0 when free
    snapInst,    \* stock_data._instance
    histInst,    \* stock_hist_data._instance
    tpc,         \* per thread: position inside its current request
    treq,        \* per thread: the request [cls, date] it is making
    nreq,        \* requests begun so far
    stocks,      \* stocks list of the running stock_hist_data.__init__
    interval,    \* (date_start, is_cache) computed by that __init__
    tasks,       \* per instrument: state of its fetch_stock_hist future
    doneQ,       \* completed futures not yet yielded by as_completed
    hdata,       \* the local dict _data of that __init__
    snapFetched, \* dates passed to stf.fetch_stocks, in call order
    histCalls,   \* per instrument: calls of stf.fetch_stock_hist
    served,      \* finished requests [cls, date, res], in order
    workerSingleton, \* a fetch task obtains another singleton (proxys())
    fetchArgs,   \* per code: the (date_start, is_cache) its fetch was submitted with
    \* ---- strategy fan-out (strategy_data_daily_job.run_check) ----
    strategy_fun,         \* strategy_fun.__name__ class
    chk_stocks,           \* the keys of the stocks map handed to run_check
    stock_tops,           \* what fetch_stock_top_entity_data(date) yielded
    is_check_high_tight,  \* the local flag of that name
    future_to_data,       \* per instrument: state of its predicate future
    completed,            \* completed futures not yet yielded by as_completed
    chk_data,             \* the local list data
    chk_logged,           \* instruments whose exception was logged
    chk_pc,               \* position inside run_check
    chk_result,           \* what run_check returned
    \* ---- forward returns (rate_stats.get_rates) ----
    rt_code_name,         \* code_name: [date, code], the entry date and the code
    rt_data,              \* data: the instrument's series, or None
    rt_columns,           \* len(stock_column)
    rt_pc,                \* before or after the call
    rt_result,            \* what get_rates returned
    \* ---- strategy predicates (core/strategy/*.py) ----
    st_name,              \* the strategy module whose predicate is called
    st_data,              \* data: the instrument's series
    st_date,              \* date: the as-of date run_check passes
    st_istop,             \* istop, passed to check_high_tight only
    st_pc,                \* before or after the call
    st_result,            \* what the predicate returned: [exc, val]
    st_columns,           \* the columns of the cached series stocks[k]
    \* ---- concurrent calendar lookups (trade_time.is_trade_date) ----
    cal_tpc,              \* per thread: position inside its current lookup
    cal_req,              \* per thread: the date it asks about
    cal_n,                \* lookups begun so far
    cal_fetched,          \* calls of stf.fetch_stocks_trade_date so far
    cal_served,           \* finished lookups [thread, date, exc, val], in order
    \* ---- backtest runs (backtest_data_daily_job.process) ----
    bt_key,               \* the row's key: [date, code]
    bt_bars,              \* the instrument's series in the cache, growing by the day
    bt_row,               \* the row's return columns in the table
    bt_log,               \* the runs so far: [selected, before, after], in order
    \* ---- calendar walks (trade_time.get_previous/next_trade_date) ----
    dt_cal,               \* the calendar instance stock_trade_date() returns
    dt_fun,               \* the function called last
    dt_date,              \* its date argument
    dt_count,             \* its count argument
    dt_result,            \* what it returned: [exc, val]
    \* ---- strategy tables (strategy_data_daily_job.prepare) ----
    tbl_exists,           \* mdb.checkTableIsExist(table_name)
    tbl_rows,             \* the codes of the table's rows of the run's date
    prep_pc,              \* the position of prepare
    prep_logged           \* the handlers that logged an exception

schedVars == <<argv, calFetch, calInst, now, fn, pc, run_date, idx,
               submitted, called, resolved, logged, job_kind, failDate, finished>>

cacheVars == <<lockOwner, snapInst, histInst, tpc, treq, nreq, stocks, interval,
               tasks, doneQ, hdata, snapFetched, histCalls, served,
               workerSingleton, fetchArgs>>

engineVars == <<strategy_fun, chk_stocks, stock_tops, is_check_high_tight,
                future_to_data, completed, chk_data, chk_logged, chk_pc, chk_result>>

ratesVars == <<rt_code_name, rt_data, rt_columns, rt_pc, rt_result>>

predVars == <<st_name, st_data, st_date, st_istop, st_pc, st_result, st_columns>>

calVars == <<cal_tpc, cal_req, cal_n, cal_fetched, cal_served>>

btVars == <<bt_key, bt_bars, bt_row, bt_log>>

dtVars == <<dt_cal, dt_fun, dt_date, dt_count, dt_result>>

prepVars == <<tbl_exists, tbl_rows, prep_pc, prep_logged>>

extVars == <<dtVars, prepVars>>

vars == <<schedVars, cacheVars, engineVars, ratesVars, predVars, calVars, btVars,
          extVars>>

----------------------------------------------------------------------------
\* Bounds of the model.

\* Dates range over DateMin..MaxDay.
MaxDay == 5

\* Longest explicit date list of list mode.
MaxList == 2

\* Threads that request the caches.
NThreads == 2

\* Instrument codes a snapshot can list.
NCodes == 2

\* Cache requests made in one process.
MaxReqs == 2

\* datetime.date.min as a day number.
DateMin == 0

Days == DateMin..MaxDay

\* A command-line date that does not parse: split("-") or datetime.datetime(...)
\* raises ValueError on it.
BadDate == DateMin - 1

\* No date at all.
NoDay == MaxDay + 1

----------------------------------------------------------------------------
\* lib/trade_time.py: session boundaries, in minutes since midnight.

\* datetime.time(9, 30, 0) of is_open
OPEN_AT == 9 * 60 + 30

\* CLOSE_TIME = (datetime.time(15, 0, 0),)
CLOSE_TIME == 15 * 60

\* Representative wall-clock readings: midnight, either side of the open,
\* mid-session, either side of the close, end of day.
Clocks == {0, OPEN_AT - 1, OPEN_AT, 12 * 60, CLOSE_TIME - 1, CLOSE_TIME, 24 * 60 - 1}

is_close(clock) == clock >= CLOSE_TIME

is_open(clock) == clock >= OPEN_AT

----------------------------------------------------------------------------
\* core/singleton_trade_date.py + lib/singleton_type.py: the calendar singleton.
\* An instance is [st, dates]: st = "absent" (no _instance yet), "unset"
\* (constructed, but the fetch raised and self.data was never assigned),
\* "none" (self.data is None) or "set" (self.data is a set of dates).

NoInstance == [st |-> "absent", dates |-> {}]

CalFetches ==
    [kind : {"ok"}, dates : SUBSET Days]
        \cup {[kind |-> "none", dates |-> {}], [kind |-> "raise", dates |-> {}]}

\* stock_trade_date.__init__: try: self.data = fetch() except: log
stock_trade_date_init(fetch) ==
    CASE fetch.kind = "ok" -> [st |-> "set", dates |-> fetch.dates]
      [] fetch.kind = "none" -> [st |-> "none", dates |-> {}]
      [] OTHER -> [st |-> "unset", dates |-> {}]

\* singleton_type.__call__ for stock_trade_date: construct on first use only.
stock_trade_date(inst, fetch) ==
    IF inst.st = "absent" THEN stock_trade_date_init(fetch) ELSE inst

\* Results of the calendar functions: [exc, val]; exc = TRUE when the call
\* raises (AttributeError on an instance without data, OverflowError below
\* date.min).
Ret(v) == [exc |-> FALSE, val |-> v]

\* is_trade_date with the membership test dropped: every date of a loaded
\* calendar counts as a trading day.
is_trade_date_nofilter(inst, d) ==
    CASE inst.st = "unset" -> [exc |-> TRUE, val |-> FALSE]
      [] inst.st = "none" -> Ret(FALSE)
      [] OTHER -> Ret(TRUE)

\* is_trade_date(date), on the instance stock_trade_date() returned.
is_trade_date(inst, d) ==
    CASE inst.st = "unset" -> [exc |-> TRUE, val |-> FALSE]
      [] inst.st = "none" -> Ret(FALSE)
      [] OTHER -> Ret(d \in inst.dates)

\* The while-loop of get_one_previous_trade_date: step back one day at a time
\* until a trading date is met; stepping below date.min raises.
RECURSIVE WalkBack(_, _)
WalkBack(dates, tmp) ==
    IF tmp - 1 < DateMin THEN [exc |-> TRUE, val |-> tmp]
    ELSE IF (tmp - 1) \in dates THEN Ret(tmp - 1)
    ELSE WalkBack(dates, tmp - 1)

get_one_previous_trade_date(inst, d) ==
    CASE inst.st = "unset" -> [exc |-> TRUE, val |-> d]
      [] inst.st = "none" -> Ret(d)
      [] OTHER -> WalkBack(inst.dates, d)

\* get_previous_trade_date(date, count): count >= 1 applications.
RECURSIVE get_previous_trade_date(_, _, _)
get_previous_trade_date(inst, d, count) ==
    LET r == get_one_previous_trade_date(inst, d)
    IN  IF r.exc \/ count - 1 = 0 THEN r
        ELSE get_previous_trade_date(inst, r.val, count - 1)

\* The last representable date: one day more raises OverflowError.
DateMax == MaxDay

\* The while-loop of get_next_trade_date: step forward one day at a time
\* until a trading date is met; stepping above date.max raises.
RECURSIVE WalkForward(_, _)
WalkForward(dates, tmp) ==
    IF tmp + 1 > DateMax THEN [exc |-> TRUE, val |-> tmp]
    ELSE IF (tmp + 1) \in dates THEN Ret(tmp + 1)
    ELSE WalkForward(dates, tmp + 1)

\* get_next_trade_date(date), on the instance stock_trade_date() returned.
get_next_trade_date(inst, d) ==
    CASE inst.st = "unset" -> [exc |-> TRUE, val |-> d]
      [] inst.st = "none" -> Ret(d)
      [] OTHER -> WalkForward(inst.dates, d)

\* get_trade_date_last with the `if not is_open(now_time)` test dropped:
\* before the close the snapshot date always falls back to the previous day.
get_trade_date_last_noopen(inst, t) ==
    LET today == t.date
        itd   == is_trade_date(inst, today)
        prev  == get_previous_trade_date(inst, today, 1)
    IN  IF itd.exc \/ ((~itd.val \/ ~is_close(t.clock)) /\ prev.exc)
        THEN [exc |-> TRUE, run_date |-> today, run_date_nph |-> today]
        ELSE IF itd.val /\ is_close(t.clock)
        THEN [exc |-> FALSE, run_date |-> today, run_date_nph |-> today]
        ELSE [exc |-> FALSE, run_date |-> prev.val, run_date_nph |-> prev.val]

\* get_trade_date_last(): [exc, run_date, run_date_nph].
get_trade_date_last(inst, t) ==
    LET today == t.date
        itd   == is_trade_date(inst, today)
        prev  == get_previous_trade_date(inst, today, 1)
    IN  IF itd.exc THEN [exc |-> TRUE, run_date |-> today, run_date_nph |-> today]
        ELSE IF itd.val
        THEN IF ~is_close(t.clock)
             THEN IF prev.exc
                  THEN [exc |-> TRUE, run_date |-> today, run_date_nph |-> today]
                  ELSE [exc |-> FALSE, run_date |-> prev.val,
                        run_date_nph |-> IF ~is_open(t.clock) THEN prev.val ELSE today]
             ELSE [exc |-> FALSE, run_date |-> today, run_date_nph |-> today]
        ELSE IF prev.exc
             THEN [exc |-> TRUE, run_date |-> today, run_date_nph |-> today]
             ELSE [exc |-> FALSE, run_date |-> prev.val, run_date_nph |-> prev.val]

----------------------------------------------------------------------------
\* lib/trade_time.py: get_trade_hist_interval.

\* timedelta(days=-(365 * 3))
LOOKBACK_DAYS == 365 * 3

\* A mutant of get_trade_hist_interval: the `not is_close(now_time)` test is
\* dropped.
get_trade_hist_interval_noclose(inst, t, d) ==
    LET itd == is_trade_date(inst, t.date)
    IN  IF d = t.date /\ itd.exc
        THEN [exc |-> TRUE, date_start |-> d - LOOKBACK_DAYS, is_cache |-> TRUE]
        ELSE [exc |-> FALSE, date_start |-> d - LOOKBACK_DAYS,
              is_cache |-> ~(d = t.date /\ itd.val /\ is_open(t.clock))]

\* get_trade_hist_interval(date) read at time t: [exc, date_start, is_cache].
\* The calendar is consulted only when the query date is today.
get_trade_hist_interval(inst, t, d) ==
    LET itd == is_trade_date(inst, t.date)
    IN  IF d = t.date /\ itd.exc
        THEN [exc |-> TRUE, date_start |-> d - LOOKBACK_DAYS, is_cache |-> TRUE]
        ELSE [exc |-> FALSE, date_start |-> d - LOOKBACK_DAYS,
              is_cache |-> ~(d = t.date /\ itd.val
                             /\ is_open(t.clock) /\ ~is_close(t.clock))]

----------------------------------------------------------------------------
\* lib/singleton_type.py + core/singleton_stock.py: the snapshot and series
\* singletons.  A snapshot is a set of rows <<date, code>>; the series map is
\* a set of keys <<date, code>>, each standing for the series fetched for it.

Threads == 1..NThreads

Codes == 1..NCodes

\* The dates the cache is asked for: two distinct days.
CacheDates == {DateMin + 1, DateMin + 2}

\* What stf.fetch_stocks(date) can yield: a snapshot of that date listing the
\* first n instruments (n = 0 is the empty table), None, or an exception.
SnapFetches(d) ==
    [kind : {"df"}, date : {d}, rows : {{<<d, c>> : c \in 1..n} : n \in 0..NCodes}]
        \cup {[kind |-> "none", date |-> d, rows |-> {}],
              [kind |-> "raise", date |-> d, rows |-> {}]}

\* What stf.fetch_stock_hist can yield for one instrument: a series, None,
\* or an exception.
HistFetches == {"ok", "none", "raise"}

\* A mutant of all_yielded: the loop is left as soon as no completed future
\* waits to be yielded.
all_yielded_early(futures, queue) == queue = <<>>

\* The end of `for future in as_completed(future_to_stock)` and of the
\* `with ThreadPoolExecutor` block: every submitted future has completed and
\* has been yielded.
all_yielded(futures, queue) ==
    queue = <<>> /\ \A c \in Codes : futures[c] # "pending"

\* No _instance attribute on the class yet.
NoCache == [st |-> "absent", arg |-> DateMin, date |-> DateMin, rows |-> {}]

\* stock_data.__init__(date): try: self.data = fetch_stocks(date) except: log.
\* After an exception self.data was never assigned.
stock_data_init(d, fetch) ==
    CASE fetch.kind = "df" -> [st |-> "df", arg |-> d, date |-> fetch.date,
                               rows |-> fetch.rows]
      [] fetch.kind = "none" -> [st |-> "none", arg |-> d, date |-> DateMin, rows |-> {}]
      [] OTHER -> [st |-> "unset", arg |-> d, date |-> DateMin, rows |-> {}]

\* The end of stock_hist_data.__init__: self.data = None if not _data else _data.
stock_hist_data_finish(d, data) ==
    IF data = {} THEN [st |-> "none", arg |-> d, date |-> DateMin, rows |-> {}]
    ELSE [st |-> "map", arg |-> d, date |-> DateMin, rows |-> data]

\* singleton_type.__call__ keyed by the constructor argument: a mutant of
\* singleton_has that rebuilds the instance for a new date.
singleton_has_bydate(inst, d) == inst.st # "absent" /\ inst.arg = d

\* singleton_type.__call__ without its test: a mutant of singleton_has that
\* constructs on every call.
singleton_has_never(inst, d) == FALSE

\* hasattr(cls, "_instance"): the constructor arguments play no part.
singleton_has(inst, d) == inst.st # "absent"

\* get_data(): return self.data.  [kind, date, rows]; kind "AttributeError"
\* when the instance has no data attribute.
get_data(inst) ==
    IF inst.st = "unset"
    THEN [kind |-> "AttributeError", date |-> DateMin, rows |-> {}]
    ELSE [kind |-> inst.st, date |-> inst.date, rows |-> inst.rows]

\* A request that ended with an exception leaving the constructor.
Raised == [kind |-> "raise", date |-> DateMin, rows |-> {}]

\* A mutant of collect: an exception of one future discards what was
\* gathered so far.
collect_abort(data, key, outcome) ==
    CASE outcome = "ok" -> data \cup {key}
      [] outcome = "raise" -> {}
      [] OTHER -> data

\* The body of the as_completed loop: __data = future.result(); keep it
\* unless it is None; an exception is logged.
collect(data, key, outcome) ==
    IF outcome = "ok" THEN data \cup {key} ELSE data

NoInterval == [exc |-> FALSE, date_start |-> DateMin, is_cache |-> TRUE]

\* The cache variables before any request.
CacheIdle ==
    /\ lockOwner = 0
    /\ snapInst = NoCache
    /\ histInst = NoCache
    /\ tpc = [t \in Threads |-> "idle"]
    /\ treq = [t \in Threads |-> [cls |-> "snap", date |-> DateMin]]
    /\ nreq = 0
    /\ stocks = {}
    /\ interval = NoInterval
    /\ tasks = [c \in Codes |-> "unsubmitted"]
    /\ doneQ = <<>>
    /\ hdata = {}
    /\ snapFetched = <<>>
    /\ histCalls = [c \in Codes |-> 0]
    /\ served = <<>>
    /\ workerSingleton = FALSE
    /\ fetchArgs = [c \in Codes |-> NoInterval]

\* No stock_tops fetched yet.
NoTops == [kind |-> "unfetched", codes |-> {}]

\* run_check has returned nothing yet.
NoResult == [kind |-> "pending", rows |-> <<>>]

\* The fan-out variables before run_check is entered.
EngineIdle ==
    /\ strategy_fun = "check"
    /\ chk_stocks = {}
    /\ stock_tops = NoTops
    /\ is_check_high_tight = FALSE
    /\ future_to_data = [c \in Codes |-> "unsubmitted"]
    /\ completed = <<>>
    /\ chk_data = <<>>
    /\ chk_logged = {}
    /\ chk_pc = "start"
    /\ chk_result = NoResult

\* get_rates returned None (no record).
NoRecord == [kind |-> "none", date |-> DateMin, code |-> 0, rates |-> <<>>]

\* The forward-return variables before get_rates is called.
RatesIdle ==
    /\ rt_code_name = [date |-> DateMin, code |-> 0]
    /\ rt_data = [kind |-> "none", bars |-> <<>>]
    /\ rt_columns = 2
    /\ rt_pc = "start"
    /\ rt_result = NoRecord

\* The columns of a cached series as the cache was populated with it.
BaseColumns == {"date", "open", "close", "high", "low", "volume", "p_change"}

\* The predicate variables before a predicate is called.
PredIdle ==
    /\ st_name = "turtle_trade"
    /\ st_data = <<>>
    /\ st_date = DateMin
    /\ st_istop = FALSE
    /\ st_pc = "start"
    /\ st_result = Ret(FALSE)
    /\ st_columns = BaseColumns

\* The lookup variables before any thread looks a date up.
CalIdle ==
    /\ cal_tpc = [t \in Threads |-> "idle"]
    /\ cal_req = [t \in Threads |-> DateMin]
    /\ cal_n = 0
    /\ cal_fetched = 0
    /\ cal_served = <<>>

\* The backtest variables of a process that runs no backtest.
BtIdle ==
    /\ bt_key = [date |-> DateMin, code |-> 0]
    /\ bt_bars = <<>>
    /\ bt_row = <<>>
    /\ bt_log = <<>>

\* The calendar-walk variables of a process that calls neither function.
DtIdle ==
    /\ dt_cal = NoInstance
    /\ dt_fun = "none"
    /\ dt_date = DateMin
    /\ dt_count = 1
    /\ dt_result = Ret(DateMin)

\* The table variables of a process that is not inside prepare.
PrepIdle ==
    /\ tbl_exists = FALSE
    /\ tbl_rows = {}
    /\ prep_pc = "idle"
    /\ prep_logged = {}

ExtIdle == DtIdle /\ PrepIdle

----------------------------------------------------------------------------
\* lib/run_template.py: run_with_args.

\* The date lists of list mode: every sequence of at most MaxList dates.
RECURSIVE SeqsUpTo(_, _)
SeqsUpTo(S, n) ==
    IF n = 0 THEN {<<>>}
    ELSE LET shorter == SeqsUpTo(S, n - 1)
         IN  shorter \cup {Append(q, x) : q \in shorter, x \in S}

Argvs ==
    [mode : {"range"}, start : Days, end : Days, dates : {<<>>}]
        \cup [mode : {"list"}, start : {DateMin}, end : {DateMin},
              dates : SeqsUpTo(Days, MaxList) \ {<<>>}]
        \cup [mode : {"implicit"}, start : {DateMin}, end : {DateMin}, dates : {<<>>}]

\* run_fun.__name__: startswith('save_nph'), startswith('save_after_close'), else.
FnNames == {"save_nph", "save_after_close", "other"}

\* One call run_fun(date, ...), where extra = "False" stands for the positional
\* False of implicit mode and "args" for *args.  The save_nph jobs are
\* save_nph_*_data(date, before=True), always registered without extra
\* arguments: with before left at True they return at once; otherwise they
\* fetch and store the data of `date`, catching and logging a failure
\* themselves.  Any other job does its work for `date` or raises.
run_fun(name, date, extra, fail) ==
    IF name = "save_nph"
    THEN IF extra # "False" THEN "skipped"
         ELSE IF date = fail THEN "caught"
         ELSE "stored"
    ELSE IF date = fail THEN "raised" ELSE "stored"

\* Leaving `with ThreadPoolExecutor() as executor` waits for every submitted
\* future; nothing reads a future's result or exception.
shutdown_wait(sub, name, fail) ==
    [i \in 1..Len(sub) |-> [date |-> sub[i],
                            result |-> run_fun(name, sub[i], "args", fail)]]

NoResolved == [exc |-> FALSE, run_date |-> DateMin, run_date_nph |-> DateMin]

SchedInit ==
    /\ argv \in Argvs
    /\ calFetch \in CalFetches
    /\ calInst = NoInstance
    /\ IF argv.mode = "implicit"
       THEN now \in [date : Days, clock : Clocks] /\ fn \in FnNames
       ELSE now = [date |-> MaxDay, clock |-> CLOSE_TIME] /\ fn = "other"
    /\ pc = "start"
    /\ run_date = DateMin
    /\ idx = 1
    /\ submitted = <<>>
    /\ called = <<>>
    /\ resolved = NoResolved
    /\ logged = FALSE
    /\ job_kind = "latest"
    /\ failDate = NoDay
    /\ finished = <<>>
    /\ CacheIdle
    /\ EngineIdle
    /\ RatesIdle
    /\ PredIdle
    /\ CalIdle
    /\ BtIdle
    /\ ExtIdle

\* len(sys.argv) == 3: parse both dates, run_date = start_date.  The two
\* dates are parsed before the try statement is entered: a date that does not
\* parse raises out of run_with_args.
RangeBegin ==
    /\ pc = "start" /\ argv.mode = "range"
    /\ IF BadDate \in {argv.start, argv.end}
       THEN pc' = "raised" /\ UNCHANGED run_date
       ELSE pc' = "range" /\ run_date' = argv.start
    /\ UNCHANGED <<argv, calFetch, calInst, now, fn, idx, submitted, called,
                   resolved, logged, finished>>

\* One pass of `while run_date <= end_date`: a trading day is submitted; an
\* exception of is_trade_date leaves the loop for the except clause.
RangeStep ==
    /\ pc = "range" /\ run_date <= argv.end
    /\ LET inst == stock_trade_date(calInst, calFetch)
           itd  == is_trade_date(inst, run_date)
       IN  /\ calInst' = inst
           /\ IF itd.exc
              THEN /\ logged' = TRUE /\ pc' = "done"
                   /\ finished' = shutdown_wait(submitted, fn, failDate)
                   /\ UNCHANGED <<run_date, submitted>>
              ELSE /\ submitted' = IF itd.val THEN Append(submitted, run_date)
                                   ELSE submitted
                   /\ run_date' = run_date + 1
                   /\ UNCHANGED <<pc, logged, finished>>
    /\ UNCHANGED <<argv, calFetch, now, fn, idx, called, resolved>>

\* The loop condition fails: the executor is left and run_with_args returns.
RangeExit ==
    /\ pc = "range" /\ run_date > argv.end
    /\ pc' = "done"
    /\ finished' = shutdown_wait(submitted, fn, failDate)
    /\ UNCHANGED <<argv, calFetch, calInst, now, fn, run_date, idx, submitted,
                   called, resolved, logged>>

\* len(sys.argv) == 2: dates = sys.argv[1].split(',').
ListBegin ==
    /\ pc = "start" /\ argv.mode = "list"
    /\ idx' = 1
    /\ pc' = "list"
    /\ UNCHANGED <<argv, calFetch, calInst, now, fn, run_date, submitted, called,
                   resolved, logged, finished>>

\* One pass of `for date in dates`: the entry is parsed inside the try
\* statement, so one that does not parse ends the loop in the except clause,
\* as an exception of is_trade_date does.
ListStep ==
    /\ pc = "list" /\ idx <= Len(argv.dates)
    /\ LET inst == stock_trade_date(calInst, calFetch)
           d    == argv.dates[idx]
           itd  == is_trade_date(inst, d)
       IN  IF d = BadDate
           THEN /\ logged' = TRUE /\ pc' = "done"
                /\ finished' = shutdown_wait(submitted, fn, failDate)
                /\ UNCHANGED <<calInst, run_date, idx, submitted>>
           ELSE /\ calInst' = inst
                /\ run_date' = d
                /\ IF itd.exc
                   THEN /\ logged' = TRUE /\ pc' = "done"
                        /\ finished' = shutdown_wait(submitted, fn, failDate)
                        /\ UNCHANGED <<idx, submitted>>
                   ELSE /\ submitted' = IF itd.val THEN Append(submitted, d)
                                        ELSE submitted
                        /\ idx' = idx + 1
                        /\ UNCHANGED <<pc, logged, finished>>
    /\ UNCHANGED <<argv, calFetch, now, fn, called, resolved>>

ListExit ==
    /\ pc = "list" /\ idx > Len(argv.dates)
    /\ pc' = "done"
    /\ finished' = shutdown_wait(submitted, fn, failDate)
    /\ UNCHANGED <<argv, calFetch, calInst, now, fn, run_date, idx, submitted,
                   called, resolved, logged>>

\* The name test of implicit mode with the save_after_close branch dropped:
\* every job is handed run_date_nph.
implicit_call_nph(name, r) ==
    IF name = "save_nph"
    THEN [date |-> r.run_date_nph, extra |-> "False"]
    ELSE [date |-> r.run_date_nph, extra |-> "args"]

\* The if/elif/else on run_fun.__name__ of implicit mode: the date and the
\* further arguments run_fun is called with.
implicit_call(name, r) ==
    CASE name = "save_nph" -> [date |-> r.run_date_nph, extra |-> "False"]
      [] name = "save_after_close" -> [date |-> r.run_date, extra |-> "args"]
      [] OTHER -> [date |-> r.run_date_nph, extra |-> "args"]

\* No date argument: resolve one date from the calendar and the clock and
\* call run_fun directly; the date is chosen by the function's name.  An
\* exception of run_fun is caught by the same try statement.
Implicit ==
    /\ pc = "start" /\ argv.mode = "implicit"
    /\ LET inst == stock_trade_date(calInst, calFetch)
           r    == get_trade_date_last(inst, now)
           call == implicit_call(fn, r)
           res  == run_fun(fn, call.date, call.extra, failDate)
       IN  /\ calInst' = inst
           /\ resolved' = r
           /\ IF r.exc
              THEN logged' = TRUE /\ UNCHANGED <<called, finished>>
              ELSE /\ logged' = (res = "raised")
                   /\ called' = <<call>>
                   /\ finished' = <<[date |-> call.date, result |-> res]>>
    /\ pc' = "done"
    /\ UNCHANGED <<argv, calFetch, now, fn, run_date, idx, submitted>>

SchedNext ==
    /\ \/ RangeBegin \/ RangeStep \/ RangeExit
       \/ ListBegin \/ ListStep \/ ListExit
       \/ Implicit
    /\ UNCHANGED <<job_kind, failDate>>
    /\ UNCHANGED <<cacheVars, engineVars, ratesVars, predVars, calVars, btVars, extVars>>

SpecSched == SchedInit /\ [][SchedNext]_vars

\* run_with_args on any command line, with jobs of every name, date strings
\* that do not parse and a job whose work fails for one date.  The calendars
\* are one with five trading days a week, one that is None and one whose
\* fetch raises.
JobArgvs ==
    [mode : {"range"}, start : Days \cup {BadDate}, end : Days \cup {BadDate},
     dates : {<<>>}]
        \cup [mode : {"list"}, start : {DateMin}, end : {DateMin},
              dates : SeqsUpTo(Days \cup {BadDate}, MaxList) \ {<<>>}]
        \cup [mode : {"implicit"}, start : {DateMin}, end : {DateMin}, dates : {<<>>}]

JobCalFetches ==
    {[kind |-> "ok", dates |-> {d \in Days : d % 7 < 5}],
     [kind |-> "none", dates |-> {}],
     [kind |-> "raise", dates |-> {}]}

JobKinds == {"finalized", "latest"}

JobInit ==
    /\ argv \in JobArgvs
    /\ calFetch \in JobCalFetches
    /\ calInst = NoInstance
    /\ IF argv.mode = "implicit"
       THEN now \in [date : Days, clock : Clocks]
       ELSE now = [date |-> MaxDay, clock |-> CLOSE_TIME]
    /\ fn \in FnNames
    /\ job_kind \in JobKinds
    /\ failDate \in Days \cup {NoDay}
    /\ pc = "start"
    /\ run_date = DateMin
    /\ idx = 1
    /\ submitted = <<>>
    /\ called = <<>>
    /\ resolved = NoResolved
    /\ logged = FALSE
    /\ finished = <<>>
    /\ CacheIdle
    /\ EngineIdle
    /\ RatesIdle
    /\ PredIdle
    /\ CalIdle
    /\ BtIdle
    /\ ExtIdle

SpecJob == JobInit /\ [][SchedNext]_vars

----------------------------------------------------------------------------
\* The cache requests of one process: threads call stock_data(date).get_data()
\* and stock_hist_data(date=date).get_data().

CacheInit ==
    /\ argv = [mode |-> "implicit", start |-> DateMin, end |-> DateMin, dates |-> <<>>]
    /\ calFetch \in {[kind |-> "ok", dates |-> Days], [kind |-> "raise", dates |-> {}]}
    /\ calInst = NoInstance
    /\ now = [date |-> DateMin + 2, clock |-> OPEN_AT]
    /\ fn = "other"
    /\ pc = "done"
    /\ run_date = DateMin
    /\ idx = 1
    /\ submitted = <<>>
    /\ called = <<>>
    /\ resolved = NoResolved
    /\ logged = FALSE
    /\ job_kind = "latest"
    /\ failDate = NoDay
    /\ finished = <<>>
    /\ CacheIdle
    /\ EngineIdle
    /\ RatesIdle
    /\ PredIdle
    /\ CalIdle
    /\ BtIdle
    /\ ExtIdle

UnchangedSched ==
    UNCHANGED <<argv, calFetch, now, fn, pc, run_date, idx, submitted, called,
                resolved, logged, job_kind, failDate, finished, workerSingleton,
                engineVars, ratesVars, predVars, calVars, btVars, extVars>>

\* The lock is left and `return cls._instance` is next.
Release(t) ==
    /\ lockOwner' = 0
    /\ tpc' = [tpc EXCEPT ![t] = "ret"]

\* Thread t calls cls(d): it enters `with singleton_type.single_lock`, which
\* needs the lock to be free or its own.  Threads are interchangeable, so a
\* thread makes its first request only after the threads numbered below it.
Enter(t, cls, d) ==
    /\ tpc[t] = "idle" /\ nreq < MaxReqs
    /\ \A u \in Threads : u < t => treq[u].date # DateMin
    /\ lockOwner \in {0, t}
    /\ treq' = [treq EXCEPT ![t] = [cls |-> cls, date |-> d]]
    /\ nreq' = nreq + 1

\* The class has its instance: nothing is constructed.
Hit(t) ==
    /\ \E cls \in {"snap", "hist"}, d \in CacheDates :
          /\ Enter(t, cls, d)
          /\ singleton_has(IF cls = "snap" THEN snapInst ELSE histInst, d)
    /\ Release(t)
    /\ UNCHANGED <<snapInst, histInst, stocks, interval, tasks, doneQ, hdata,
                   snapFetched, histCalls, served, calInst, fetchArgs>>
    /\ UnchangedSched

\* stock_data has no instance: construct it (one fetch_stocks call) and
\* store it.
SnapConstruct(t) ==
    /\ \E d \in CacheDates : \E f \in SnapFetches(d) :
          /\ Enter(t, "snap", d)
          /\ ~singleton_has(snapInst, d)
          /\ snapInst' = stock_data_init(d, f)
          /\ snapFetched' = Append(snapFetched, d)
    /\ Release(t)
    /\ UNCHANGED <<histInst, stocks, interval, tasks, doneQ, hdata, histCalls,
                   served, calInst, fetchArgs>>
    /\ UnchangedSched

\* stock_hist_data has no instance: run __init__ up to the submission of the
\* fetch tasks.  The universe comes from stock_data(date) (a nested singleton
\* call under the re-entrant lock); a missing or empty snapshot, or an
\* exception of get_trade_hist_interval, leaves __init__ by an exception: the
\* lock is left, no instance is stored and the request ends.
HistBegin(t) ==
    \E d \in CacheDates : \E f \in SnapFetches(d) :
       LET build == ~singleton_has(snapInst, d)
           snap  == IF build THEN stock_data_init(d, f) ELSE snapInst
           got   == get_data(snap)
           cal   == stock_trade_date(calInst, calFetch)
           \* stocks[0][0]: the date column of the first snapshot row
           d0    == got.date
           iv    == get_trade_hist_interval(cal, now, d0)
       IN  /\ Enter(t, "hist", d)
           /\ ~singleton_has(histInst, d)
           \* an existing snapshot instance makes no fetch: one outcome only
           /\ build \/ f = [kind |-> "none", date |-> d, rows |-> {}]
           /\ snapInst' = snap
           /\ snapFetched' = IF build THEN Append(snapFetched, d) ELSE snapFetched
           /\ IF got.kind # "df" \/ got.rows = {}
              THEN /\ served' = Append(served, [cls |-> "hist", date |-> d, res |-> Raised])
                   /\ lockOwner' = 0
                   /\ UNCHANGED <<tpc, stocks, interval, tasks, doneQ, hdata, calInst, fetchArgs>>
              ELSE /\ calInst' = IF d0 = now.date THEN cal ELSE calInst
                   /\ IF iv.exc
                      THEN /\ served' = Append(served,
                                          [cls |-> "hist", date |-> d, res |-> Raised])
                           /\ lockOwner' = 0
                           /\ UNCHANGED <<tpc, stocks, interval, tasks, doneQ, hdata,
                                          fetchArgs>>
                      ELSE /\ stocks' = got.rows
                           /\ interval' = iv
                           /\ tasks' = [c \in Codes |->
                                          IF <<d0, c>> \in got.rows THEN "pending"
                                          ELSE "unsubmitted"]
                           /\ fetchArgs' = [c \in Codes |->
                                              IF <<d0, c>> \in got.rows THEN iv
                                              ELSE NoInterval]
                           /\ doneQ' = <<>>
                           /\ hdata' = {}
                           /\ lockOwner' = t
                           /\ tpc' = [tpc EXCEPT ![t] = "pool"]
                           /\ UNCHANGED served
           /\ UNCHANGED <<histInst, histCalls>>
           /\ UnchangedSched

\* A pool worker runs stf.fetch_stock_hist(stock, date_start, is_cache) for
\* one instrument; its future completes with a series, None or an exception.
\* A fetch that obtains a singleton (proxys() in make_request) enters
\* `with singleton_type.single_lock` in the worker thread, which waits while
\* another thread owns the lock.
FetchDone(c) ==
    /\ tasks[c] = "pending"
    /\ workerSingleton => lockOwner = 0
    /\ \E o \in HistFetches : tasks' = [tasks EXCEPT ![c] = o]
    /\ histCalls' = [histCalls EXCEPT ![c] = @ + 1]
    /\ doneQ' = Append(doneQ, c)
    /\ UNCHANGED <<lockOwner, snapInst, histInst, tpc, treq, nreq, stocks, interval,
                   hdata, snapFetched, served, calInst, fetchArgs>>
    /\ UnchangedSched

\* as_completed yields the next completed future to __init__.
Collect(t) ==
    /\ tpc[t] = "pool" /\ doneQ # <<>>
    /\ LET c   == Head(doneQ)
           key == CHOOSE k \in stocks : k[2] = c
       IN  hdata' = collect(hdata, key, tasks[c])
    /\ doneQ' = Tail(doneQ)
    /\ UNCHANGED <<lockOwner, snapInst, histInst, tpc, treq, nreq, stocks, interval,
                   tasks, snapFetched, histCalls, served, calInst, fetchArgs>>
    /\ UnchangedSched

\* Every future was yielded: the executor is left, self.data is assigned, the
\* instance is stored and the lock is left.
HistFinish(t) ==
    /\ tpc[t] = "pool" /\ all_yielded(tasks, doneQ)
    /\ histInst' = stock_hist_data_finish(treq[t].date, hdata)
    /\ Release(t)
    /\ UNCHANGED <<snapInst, treq, nreq, stocks, interval, tasks, doneQ, hdata,
                   snapFetched, histCalls, served, calInst, fetchArgs>>
    /\ UnchangedSched

\* Outside the lock: return cls._instance, then .get_data() on it.
Return(t) ==
    /\ tpc[t] = "ret"
    /\ served' = Append(served,
                    [cls |-> treq[t].cls, date |-> treq[t].date,
                     res |-> get_data(IF treq[t].cls = "snap" THEN snapInst
                                      ELSE histInst)])
    /\ tpc' = [tpc EXCEPT ![t] = "idle"]
    /\ UNCHANGED <<lockOwner, snapInst, histInst, treq, nreq, stocks, interval,
                   tasks, doneQ, hdata, snapFetched, histCalls, calInst, fetchArgs>>
    /\ UnchangedSched

CacheNext ==
    \/ \E t \in Threads :
          \/ Hit(t) \/ SnapConstruct(t) \/ HistBegin(t)
          \/ Collect(t) \/ HistFinish(t) \/ Return(t)
    \/ \E c \in Codes : FetchDone(c)

SpecCache == CacheInit /\ [][CacheNext]_vars

----------------------------------------------------------------------------
\* One series request of a process, at any time of day, with fetch tasks
\* that do or do not obtain a singleton of their own.

\* Calendars: every other day a trading day, no calendar, a failing fetch.
PoolCalFetches ==
    {[kind |-> "ok", dates |-> {d \in Days : d % 2 = 0}],
     [kind |-> "none", dates |-> {}],
     [kind |-> "raise", dates |-> {}]}

PoolInit ==
    /\ argv = [mode |-> "implicit", start |-> DateMin, end |-> DateMin, dates |-> <<>>]
    /\ calFetch \in PoolCalFetches
    /\ calInst = NoInstance
    /\ now \in [date : CacheDates, clock : Clocks]
    /\ fn = "other"
    /\ pc = "done"
    /\ run_date = DateMin
    /\ idx = 1
    /\ submitted = <<>>
    /\ called = <<>>
    /\ resolved = NoResolved
    /\ logged = FALSE
    /\ job_kind = "latest"
    /\ failDate = NoDay
    /\ finished = <<>>
    /\ lockOwner = 0
    /\ snapInst = NoCache
    /\ histInst = NoCache
    /\ tpc = [t \in Threads |-> "idle"]
    /\ treq = [t \in Threads |-> [cls |-> "snap", date |-> DateMin]]
    /\ nreq = 0
    /\ stocks = {}
    /\ interval = NoInterval
    /\ tasks = [c \in Codes |-> "unsubmitted"]
    /\ doneQ = <<>>
    /\ hdata = {}
    /\ snapFetched = <<>>
    /\ histCalls = [c \in Codes |-> 0]
    /\ served = <<>>
    /\ workerSingleton \in BOOLEAN
    /\ fetchArgs = [c \in Codes |-> NoInterval]
    /\ EngineIdle
    /\ RatesIdle
    /\ PredIdle
    /\ CalIdle
    /\ BtIdle
    /\ ExtIdle

\* The steps of the first stock_hist_data(date=date).get_data() of the
\* process and of its pool.
PoolNext ==
    /\ \/ \E t \in Threads :
             HistBegin(t) \/ Collect(t) \/ HistFinish(t) \/ Return(t)
       \/ \E c \in Codes : FetchDone(c)
    /\ nreq' <= 1

SpecPool == PoolInit /\ [][PoolNext]_vars

\* Threads that can take a step do take one: the constructing thread and
\* the pool workers are scheduled by the operating system.
FairPool == SpecPool /\ WF_vars(PoolNext)

----------------------------------------------------------------------------
\* job/strategy_data_daily_job.py: run_check(strategy_fun, table_name, stocks,
\* date).  The predicate is a parameter of run_check: what one call of it
\* yields (true, false or an exception) is the environment's choice, except
\* where the code of the call fixes it.

\* strategy_fun.__name__ == 'check_high_tight', or any other name.
StrategyFuns == {"check_high_tight", "check"}

\* What fetch_stock_top_entity_data(date) can yield: None, a set of codes, or
\* an exception.
TopFetches ==
    [kind : {"set"}, codes : SUBSET Codes]
        \cup {[kind |-> "none", codes |-> {}], [kind |-> "raise", codes |-> {}]}

PredOutcomes == {"true", "false", "raise"}

\* strategy_fun(k, stocks[k], date=date[, istop=...]): check_high_tight
\* begins with `if not istop: return False`, and istop defaults to False.
strategy_outcomes(fun, istop) ==
    IF fun = "check_high_tight" /\ ~istop THEN {"false"} ELSE PredOutcomes

\* A mutant of check_collect: an exception of one future empties the list.
check_collect_abort(data, stock, outcome) ==
    CASE outcome = "true" -> Append(data, stock)
      [] outcome = "raise" -> <<>>
      [] OTHER -> data

\* The body of the as_completed loop: if future.result(): data.append(stock);
\* an exception is logged.
check_collect(data, stock, outcome) ==
    IF outcome = "true" THEN Append(data, stock) ELSE data

\* The state of every process that is not inside run_with_args.
SchedIdle ==
    /\ argv = [mode |-> "implicit", start |-> DateMin, end |-> DateMin, dates |-> <<>>]
    /\ calFetch = [kind |-> "ok", dates |-> Days]
    /\ calInst = NoInstance
    /\ now = [date |-> DateMin + 2, clock |-> OPEN_AT]
    /\ fn = "other"
    /\ pc = "done"
    /\ run_date = DateMin
    /\ idx = 1
    /\ submitted = <<>>
    /\ called = <<>>
    /\ resolved = NoResolved
    /\ logged = FALSE
    /\ job_kind = "latest"
    /\ failDate = NoDay
    /\ finished = <<>>

\* run_check is entered with a non-empty stocks map (prepare returns early on
\* None, and the series cache never stores an empty map).
EngineInit ==
    /\ SchedIdle
    /\ CacheIdle
    /\ RatesIdle
    /\ PredIdle
    /\ CalIdle
    /\ BtIdle
    /\ ExtIdle
    /\ strategy_fun \in StrategyFuns
    /\ chk_stocks \in {{<<DateMin + 1, c>> : c \in U} : U \in (SUBSET Codes) \ {{}}}
    /\ stock_tops = NoTops
    /\ is_check_high_tight = FALSE
    /\ future_to_data = [c \in Codes |-> "unsubmitted"]
    /\ completed = <<>>
    /\ chk_data = <<>>
    /\ chk_logged = {}
    /\ chk_pc = "start"
    /\ chk_result = NoResult

UnchangedByEngine ==
    UNCHANGED <<schedVars, cacheVars, ratesVars, predVars, calVars, btVars, extVars>>

\* Lines 99-110: the tops are fetched for check_high_tight only (an
\* exception of that fetch leaves run_check), then one future per key of
\* stocks is submitted.
CheckBegin ==
    /\ chk_pc = "start" /\ chk_stocks # {}
    /\ \E f \in TopFetches :
          /\ IF strategy_fun = "check_high_tight" THEN stock_tops' = f
             ELSE f.kind = "none" /\ stock_tops' = stock_tops
          /\ IF strategy_fun = "check_high_tight" /\ f.kind = "raise"
             THEN /\ chk_pc' = "raised"
                  /\ UNCHANGED <<is_check_high_tight, future_to_data>>
             ELSE /\ is_check_high_tight' =
                        (strategy_fun = "check_high_tight" /\ f.kind # "none")
                  /\ future_to_data' =
                        [c \in Codes |->
                           IF \E k \in chk_stocks : k[2] = c THEN "pending"
                           ELSE "unsubmitted"]
                  /\ chk_pc' = "pool"
    /\ UNCHANGED <<strategy_fun, chk_stocks, completed, chk_data, chk_logged,
                   chk_result>>
    /\ UnchangedByEngine

\* A pool worker runs the predicate for one instrument.
PredicateDone(c) ==
    /\ future_to_data[c] = "pending"
    /\ LET istop == is_check_high_tight /\ c \in stock_tops.codes
       IN  \E o \in strategy_outcomes(strategy_fun, istop) :
              future_to_data' = [future_to_data EXCEPT ![c] = o]
    /\ completed' = Append(completed, c)
    /\ UNCHANGED <<strategy_fun, chk_stocks, stock_tops, is_check_high_tight,
                   chk_data, chk_logged, chk_pc, chk_result>>
    /\ UnchangedByEngine

\* as_completed yields the next completed future to run_check.
CheckCollect ==
    /\ chk_pc = "pool" /\ completed # <<>>
    /\ LET c     == Head(completed)
           stock == CHOOSE k \in chk_stocks : k[2] = c
       IN  /\ chk_data' = check_collect(chk_data, stock, future_to_data[c])
           /\ chk_logged' = IF future_to_data[c] = "raise"
                            THEN chk_logged \cup {c} ELSE chk_logged
    /\ completed' = Tail(completed)
    /\ UNCHANGED <<strategy_fun, chk_stocks, stock_tops, is_check_high_tight,
                   future_to_data, chk_pc, chk_result>>
    /\ UnchangedByEngine

\* Every future was yielded: `if not data: return None else: return data`.
CheckReturn ==
    /\ chk_pc = "pool" /\ all_yielded(future_to_data, completed)
    /\ chk_result' = IF chk_data = <<>> THEN [kind |-> "none", rows |-> <<>>]
                     ELSE [kind |-> "list", rows |-> chk_data]
    /\ chk_pc' = "returned"
    /\ UNCHANGED <<strategy_fun, chk_stocks, stock_tops, is_check_high_tight,
                   future_to_data, completed, chk_data, chk_logged>>
    /\ UnchangedByEngine

EngineNext ==
    \/ CheckBegin
    \/ \E c \in Codes : PredicateDone(c)
    \/ CheckCollect
    \/ CheckReturn

SpecEngine == EngineInit /\ [][EngineNext]_vars

----------------------------------------------------------------------------
\* The three fan-out stages: the population of the series cache
\* (stock_hist_data.__init__), run_check of strategy_data_daily_job and
\* run_check of backtest_data_daily_job.  The last is the loop of the
\* strategy run_check around rate.get_rates: a record counts like a true
\* predicate (`if _data_ is not None: data[stock] = _data_`), None like a
\* false one, and `if not data: return None` ends both.

StageFuns == StrategyFuns \cup {"get_rates"}

StagesInit ==
    \/ CacheInit
    \/ /\ SchedIdle
       /\ CacheIdle
       /\ RatesIdle
       /\ PredIdle
       /\ CalIdle
       /\ BtIdle
       /\ ExtIdle
       /\ strategy_fun \in StageFuns
       /\ chk_stocks \in {{<<DateMin + 1, c>> : c \in U} : U \in (SUBSET Codes) \ {{}}}
       /\ stock_tops = NoTops
       /\ is_check_high_tight = FALSE
       /\ future_to_data = [c \in Codes |-> "unsubmitted"]
       /\ completed = <<>>
       /\ chk_data = <<>>
       /\ chk_logged = {}
       /\ chk_pc = "start"
       /\ chk_result = NoResult

\* A process is in one stage at a time: run_check is entered with a stocks
\* map, the cache requests are made without one.
StagesNext ==
    \/ chk_stocks = {} /\ CacheNext
    \/ chk_stocks # {} /\ EngineNext

SpecStages == StagesInit /\ [][StagesNext]_vars

----------------------------------------------------------------------------
\* pandas and numpy operations on a series.  A series is a sequence of bars
\* in date order.  Prices are in hundredths of a yuan and percentages in
\* hundredths of a percent, so that a value rounded to two decimals is an
\* integer.

Min(a, b) == IF a <= b THEN a ELSE b

Max(a, b) == IF a >= b THEN a ELSE b

\* DataFrame.head(n): the first n rows, all of them when there are fewer.
head(data, n) == SubSeq(data, 1, Min(n, Len(data)))

\* DataFrame.tail(n): the last n rows, all of them when there are fewer.
tail(data, n) == SubSeq(data, Max(1, Len(data) - n + 1), Len(data))

\* numpy.around(num / den, 0) for den > 0: the nearest integer, a tie going
\* to the even neighbour.
np_around(num, den) ==
    LET q == num \div den
        r == num % den
    IN  IF 2 * r < den THEN q
        ELSE IF 2 * r > den THEN q + 1
        ELSE IF q % 2 = 0 THEN q ELSE q + 1

----------------------------------------------------------------------------
\* core/backtest/rate_stats.py: get_rates, as called by
\* job/backtest_data_daily_job.py run_check with
\* threshold = len(backtest_column) - 1.

\* Longest forward horizon: the number of rate columns of stock_column.
MaxForward == 2

\* Closing prices a bar can carry, in hundredths.
Closes == {32, 33, 900, 1000, 1100}

\* The series handed to get_rates: bars dated 1, 2, ..., at most two more
\* than the longest horizon, or None when the key has no series.
RateSeries ==
    {[kind |-> "none", bars |-> <<>>]}
        \cup {[kind |-> "df", bars |-> [i \in 1..Len(q) |-> [date |-> i, close |-> q[i]]]] :
                 q \in SeqsUpTo(Closes, MaxForward + 2)}

\* A return slot: a number of hundredths of a percent, or None.
Slot(v) == [null |-> FALSE, val |-> v]

Null == [null |-> TRUE, val |-> 0]

\* A mutant of get_rates: the missing days are padded with 0, not None.
get_rates_zero(code_name, data, ncols, threshold) ==
    IF data.kind = "none" THEN [exc |-> FALSE, ret |-> NoRecord]
    ELSE LET sel == SelectSeq(data.bars, LAMBDA b : b.date >= code_name.date)
             d   == head(sel, threshold)
         IN  IF Len(d) <= 1 THEN [exc |-> FALSE, ret |-> NoRecord]
             ELSE LET close1 == d[1].close
                      rates  == [i \in 1..(Len(d) - 1) |->
                                   Slot(np_around(10000 * (d[i + 1].close - close1), close1))]
                      l      == ncols - (2 + Len(rates))
                  IN  IF l < 0 THEN [exc |-> TRUE, ret |-> NoRecord]
                      ELSE [exc |-> FALSE,
                            ret |-> [kind |-> "record", date |-> code_name.date,
                                     code |-> code_name.code,
                                     rates |-> rates \o [i \in 1..l |-> Slot(0)]]]

\* get_rates(code_name, data, stock_column, threshold), ncols standing for
\* len(stock_column): [exc, ret].  The row starts with the entry date and the
\* code; every bar after the first adds its rounded percentage over the first
\* close; None fills the row up to the columns.  A row longer than the
\* columns makes pd.Series raise.
get_rates(code_name, data, ncols, threshold) ==
    IF data.kind = "none" THEN [exc |-> FALSE, ret |-> NoRecord]
    ELSE LET sel == SelectSeq(data.bars, LAMBDA b : b.date >= code_name.date)
             d   == head(sel, threshold)
         IN  IF Len(d) <= 1 THEN [exc |-> FALSE, ret |-> NoRecord]
             ELSE LET close1 == d[1].close
                      rates  == [i \in 1..(Len(d) - 1) |->
                                   Slot(np_around(10000 * (d[i + 1].close - close1), close1))]
                      l      == ncols - (2 + Len(rates))
                  IN  IF l < 0 THEN [exc |-> TRUE, ret |-> NoRecord]
                      ELSE [exc |-> FALSE,
                            ret |-> [kind |-> "record", date |-> code_name.date,
                                     code |-> code_name.code,
                                     rates |-> rates \o [i \in 1..l |-> Null]]]

\* One call of get_rates from run_check: a series, an entry date from the
\* first bar's date to the day after the last bar's, and the columns date,
\* code and 1..MaxForward rate columns.
RatesInit ==
    /\ SchedIdle
    /\ CacheIdle
    /\ EngineIdle
    /\ PredIdle
    /\ CalIdle
    /\ BtIdle
    /\ ExtIdle
    /\ rt_data \in RateSeries
    /\ rt_code_name \in [date : 1..(Len(rt_data.bars) + 1), code : {1}]
    /\ rt_columns \in {2 + n : n \in 1..MaxForward}
    /\ rt_pc = "start"
    /\ rt_result = NoRecord

\* executor.submit(rate.get_rates, stock, data_all.get(...), backtest_column,
\* len(backtest_column) - 1)
GetRates ==
    /\ rt_pc = "start"
    /\ LET r == get_rates(rt_code_name, rt_data, rt_columns, rt_columns - 1)
       IN  /\ rt_result' = r.ret
           /\ rt_pc' = IF r.exc THEN "raised" ELSE "done"
    /\ UNCHANGED <<rt_code_name, rt_data, rt_columns>>
    /\ UNCHANGED <<schedVars, cacheVars, engineVars, predVars, calVars, btVars, extVars>>

RatesNext == GetRates

SpecRates == RatesInit /\ [][RatesNext]_vars

----------------------------------------------------------------------------
\* core/strategy/*.py: the strategy predicates.  A bar is
\* [date, open, close, high, low, volume, p_change]: prices in hundredths
\* of a yuan, p_change in hundredths of a percent, volume in units of 10^4
\* shares.  run_check always passes date, so code_name plays no part.  A
\* result is [exc, val].  A ratio test a / b < x of the code is written
\* without the division, which is the same test for b > 0.

\* The call raises.
Exc == [exc |-> TRUE, val |-> FALSE]

\* data.loc[data['date'] <= end_date]
upto(data, end_date) == SelectSeq(data, LAMBDA b : b.date <= end_date)

MaxOf(S) == CHOOSE x \in S : \A y \in S : y <= x

MinOf(S) == CHOOSE x \in S : \A y \in S : x <= y

\* values[from] + ... + values[to], summed by halves.
RECURSIVE SumOf(_, _, _)
SumOf(values, from, to) ==
    IF from > to THEN 0
    ELSE IF from = to THEN values[from]
    ELSE LET mid == (from + to) \div 2
         IN  SumOf(values, from, mid) + SumOf(values, mid + 1, to)

\* tl.MA(values, timeperiod)[i] times timeperiod, with NaN (fewer than
\* timeperiod values up to i) replaced by 0.0 as the callers do.  i counts
\* from 1.
MA(values, timeperiod, i) ==
    IF i < timeperiod THEN 0 ELSE SumOf(values, i - timeperiod + 1, i)

\* close * volume < 200000000, in hundredths of a yuan times 10^4 shares.
AMOUNT_MIN == 200000000 \div 100

\* The 1000000 that starts a running minimum of the close, in hundredths.
LOWEST_START == 1000000 * 100

\* turtle_trade.check_enter without its length test.
check_enter_noguard(data, date, threshold) ==
    LET d == upto(data, date)
        w == tail(d, threshold)
        max_price == MaxOf({0} \cup {w[i].close : i \in 1..Len(w)})
    IN  IF w = <<>> THEN Exc
        ELSE Ret(w[Len(w)].close >= max_price)

\* turtle_trade.check_enter: the last close is the highest close of the last
\* threshold bars.  data.iloc[-1] raises IndexError on a frame without rows.
check_enter(data, date, threshold) ==
    LET d == upto(data, date)
    IN  IF Len(d) < threshold THEN Ret(FALSE)
        ELSE LET w == tail(d, threshold)
                 max_price == MaxOf({0} \cup {w[i].close : i \in 1..Len(w)})
             IN  IF w = <<>> THEN Exc
                 ELSE Ret(w[Len(w)].close >= max_price)

\* A mutant of check_volume: the 5-bar average volume is the one of the
\* last bar itself.
check_volume_own(data, date, threshold) ==
    LET d == upto(data, date)
        n == Len(d)
        volumes == [i \in 1..n |-> d[i].volume]
    IN  IF n < threshold THEN Ret(FALSE)
        ELSE IF n = 0 THEN Exc
        ELSE IF d[n].p_change < 200 \/ d[n].close < d[n].open THEN Ret(FALSE)
        ELSE IF n < threshold + 1 THEN Ret(FALSE)
        ELSE IF d[n].close * d[n].volume < AMOUNT_MIN THEN Ret(FALSE)
        ELSE LET mean_vol == MA(volumes, 5, n)
             IN  Ret(mean_vol = 0 \/ 5 * d[n].volume >= 2 * mean_vol)

\* enter.check_volume: the last bar rose by at least 2% and did not close
\* below its open, its turnover is at least 200000000 and its volume at least
\* twice the 5-bar average volume of the bar before it (the last row of
\* head(threshold) of tail(threshold + 1)).  A zero average makes the
\* quotient inf, which passes.
check_volume(data, date, threshold) ==
    LET d == upto(data, date)
        n == Len(d)
        volumes == [i \in 1..n |-> d[i].volume]
    IN  IF n < threshold THEN Ret(FALSE)
        ELSE IF n = 0 THEN Exc
        ELSE IF d[n].p_change < 200 \/ d[n].close < d[n].open THEN Ret(FALSE)
        ELSE IF n < threshold + 1 THEN Ret(FALSE)
        ELSE IF d[n].close * d[n].volume < AMOUNT_MIN THEN Ret(FALSE)
        ELSE LET mean_vol == MA(volumes, 5, n - 1)
             IN  Ret(mean_vol = 0 \/ 5 * d[n].volume >= 2 * mean_vol)

\* climax_limitdown.check: the last bar fell by at least 9.5%, its turnover
\* is at least 200000000 and its volume at least four times the 5-bar
\* average volume of the bar before it.
climax_limitdown_check(data, date, threshold) ==
    LET d == upto(data, date)
        n == Len(d)
        volumes == [i \in 1..n |-> d[i].volume]
    IN  IF n < threshold THEN Ret(FALSE)
        ELSE IF n = 0 THEN Exc
        ELSE IF d[n].p_change > -950 THEN Ret(FALSE)
        ELSE IF n < threshold + 1 THEN Ret(FALSE)
        ELSE IF d[n].close * d[n].volume < AMOUNT_MIN THEN Ret(FALSE)
        ELSE LET mean_vol == MA(volumes, 5, n - 1)
             IN  Ret(mean_vol = 0 \/ 5 * d[n].volume >= 4 * mean_vol)

\* high_tight_flag.check_high_tight: in bars 11..24 counted from the end, the
\* last high is at least 1.9 times the lowest low and two bars in a row rose
\* by at least 9.5%.  The loop returns at the first bar whose p_change and
\* whose predecessor's are both >= 9.5.
check_high_tight(data, date, threshold, istop) ==
    IF ~istop THEN Ret(FALSE)
    ELSE LET d == upto(data, date)
         IN  IF Len(d) < threshold THEN Ret(FALSE)
             ELSE LET w == head(tail(tail(d, threshold), 24), 14)
                  IN  IF w = <<>> THEN Exc
                      ELSE LET low == MinOf({w[i].low : i \in 1..Len(w)})
                           IN  IF 10 * w[Len(w)].high < 19 * low THEN Ret(FALSE)
                               ELSE Ret(\E i \in 1..(Len(w) - 1) :
                                           /\ w[i].p_change >= 950
                                           /\ w[i + 1].p_change >= 950)

\* The loop of low_backtrace_increase.check from row i on, with the previous
\* row's p_change and open: FALSE as soon as a row fell by more than 7%, or
\* by more than 10% over two rows.
RECURSIVE no_deep_drop(_, _, _, _)
no_deep_drop(w, i, previous_p_change, previous_open) ==
    IF i > Len(w) THEN TRUE
    ELSE LET r == w[i]
         IN  IF \/ r.p_change < -700
                \/ 100 * (r.close - r.open) < -7 * r.open
                \/ previous_p_change + r.p_change < -1000
                \/ IF previous_open > 0
                   THEN 10 * (r.close - previous_open) < -previous_open
                   ELSE 10 * (r.close - previous_open) > -previous_open
             THEN FALSE
             ELSE no_deep_drop(w, i + 1, r.p_change, r.open)

\* low_backtrace_increase.check: the close rose by at least 60% over the
\* last threshold bars and the loop found no deep drop; the loop starts with
\* previous_p_change = 100.0 and previous_open = -1000000.0.
low_backtrace_increase_check(data, date, threshold) ==
    LET d == upto(data, date)
    IN  IF Len(d) < threshold THEN Ret(FALSE)
        ELSE LET w == tail(d, threshold)
             IN  IF w = <<>> THEN Exc
                 ELSE IF 10 * (w[Len(w)].close - w[1].close) < 6 * w[1].close
                 THEN Ret(FALSE)
                 ELSE Ret(no_deep_drop(w, 1, 100 * 100, -LOWEST_START))

\* The loop that tracks the highest and the lowest close of rows i..to:
\* `if close > highest: ... elif close < lowest: ...`, a row being
\* [close, volume, date].
RECURSIVE high_low(_, _, _, _, _)
high_low(d, i, to, highest_row, lowest_row) ==
    IF i > to THEN [highest |-> highest_row, lowest |-> lowest_row]
    ELSE LET row == [close |-> d[i].close, volume |-> d[i].volume, date |-> d[i].date]
         IN  IF row.close > highest_row.close
             THEN high_low(d, i + 1, to, row, lowest_row)
             ELSE IF row.close < lowest_row.close
             THEN high_low(d, i + 1, to, highest_row, row)
             ELSE high_low(d, i + 1, to, highest_row, lowest_row)

\* [0, 0, ''] and [1000000, 0, '']: the rows the loops start from; date 0
\* stands for the empty string.
HIGHEST_START == [close |-> 0, volume |-> 0, date |-> 0]

LOWEST_ROW_START == [close |-> LOWEST_START, volume |-> 0, date |-> 0]

\* low_atr.check_low_increase: over the last threshold bars the mean
\* absolute p_change is at most 10 and (highest - lowest) / lowest > 1.1,
\* highest and lowest as the loop tracks them.
check_low_increase(data, date, ma_long, threshold) ==
    LET d == upto(data, date)
    IN  IF Len(d) < ma_long THEN Ret(FALSE)
        ELSE LET w == tail(d, threshold)
                 days_count == Len(w)
             IN  IF days_count < threshold THEN Ret(FALSE)
                 ELSE LET hl == high_low(w, 1, days_count, HIGHEST_START, LOWEST_ROW_START)
                          changes == [i \in 1..days_count |->
                                        IF w[i].p_change >= 0 THEN w[i].p_change
                                        ELSE -w[i].p_change]
                          total_change == SumOf(changes, 1, days_count)
                      IN  IF days_count = 0 THEN Exc
                          ELSE IF total_change > 1000 * days_count THEN Ret(FALSE)
                          ELSE Ret(10 * (hl.highest.close - hl.lowest.close)
                                       > 11 * hl.lowest.close)

\* keep_increasing.check: the 30-bar averages of the close at rows 0,
\* round(threshold / 3), round(threshold * 2 / 3) and -1 of the last
\* threshold bars rise strictly and the last exceeds 1.2 times the first.
\* iloc beyond the rows raises IndexError.
keep_increasing_check(data, date, threshold) ==
    LET d == upto(data, date)
        n == Len(d)
    IN  IF n < threshold THEN Ret(FALSE)
        ELSE LET closes == [i \in 1..n |-> d[i].close]
                 first  == Max(1, n - threshold + 1)
                 step1  == np_around(threshold, 3)
                 step2  == np_around(threshold * 2, 3)
                 ma30(i) == MA(closes, 30, i)
             IN  IF n = 0 \/ first + step1 > n \/ first + step2 > n THEN Exc
                 ELSE Ret(/\ ma30(first) < ma30(first + step1)
                          /\ ma30(first + step1) < ma30(first + step2)
                          /\ ma30(first + step2) < ma30(n)
                          /\ 5 * ma30(n) > 6 * ma30(first))

\* A mutant of breakthrough_platform.check: the loop keeps the last bar that
\* passes, not the first.
breakthrough_platform_last(data, date, threshold) ==
    LET d == upto(data, date)
        n == Len(d)
    IN  IF n < threshold THEN Ret(FALSE)
        ELSE LET closes == [i \in 1..n |-> d[i].close]
                 first  == Max(1, n - threshold + 1)
                 ma60(i) == MA(closes, 60, i)
                 cv(i)  == check_volume(data, d[i].date, threshold)
                 stops  == {i \in first..n :
                              /\ 60 * d[i].open < ma60(i) /\ ma60(i) <= 60 * d[i].close
                              /\ (cv(i).exc \/ cv(i).val)}
             IN  IF stops = {} THEN Ret(FALSE)
                 ELSE IF cv(MaxOf(stops)).exc THEN Exc
                 ELSE LET breakthrough_row == d[MaxOf(stops)].date
                      IN  Ret(\A i \in first..n :
                                 (d[i].date < breakthrough_row /\ ma60(i) > 0) =>
                                    /\ 20 * (ma60(i) - 60 * d[i].close) > -ma60(i)
                                    /\ 5 * (ma60(i) - 60 * d[i].close) < ma60(i))

\* breakthrough_platform.check: the first of the last threshold bars with
\* open < ma60 <= close on whose date check_volume holds is the breakthrough;
\* every earlier bar of the window with ma60 > 0 must have
\* -0.05 < (ma60 - close) / ma60 < 0.2.
breakthrough_platform_check(data, date, threshold) ==
    LET d == upto(data, date)
        n == Len(d)
    IN  IF n < threshold THEN Ret(FALSE)
        ELSE LET closes == [i \in 1..n |-> d[i].close]
                 first  == Max(1, n - threshold + 1)
                 ma60(i) == MA(closes, 60, i)
                 cv(i)  == check_volume(data, d[i].date, threshold)
                 stops  == {i \in first..n :
                              /\ 60 * d[i].open < ma60(i) /\ ma60(i) <= 60 * d[i].close
                              /\ (cv(i).exc \/ cv(i).val)}
             IN  IF stops = {} THEN Ret(FALSE)
                 ELSE IF cv(MinOf(stops)).exc THEN Exc
                 ELSE LET breakthrough_row == d[MinOf(stops)].date
                      IN  Ret(\A i \in first..n :
                                 (d[i].date < breakthrough_row /\ ma60(i) > 0) =>
                                    /\ 20 * (ma60(i) - 60 * d[i].close) > -ma60(i)
                                    /\ 5 * (ma60(i) - 60 * d[i].close) < ma60(i))

\* parking_apron.check_internal: the three bars after the limit-up bar stay
\* above its close, each closing within 3% of its open, the second and third
\* moving by less than 5%.
check_internal(data, limitup_row) ==
    LET limitup_price == limitup_row.close
        limitup_end == head(SelectSeq(data, LAMBDA b : b.date > limitup_row.date), 3)
        flat(b) == 97 * b.open < 100 * b.close /\ 100 * b.close < 103 * b.open
    IN  IF Len(limitup_end) < 3 THEN FALSE
        ELSE /\ limitup_end[1].close > limitup_price
             /\ limitup_end[1].open > limitup_price
             /\ flat(limitup_end[1])
             /\ \A j \in 2..3 :
                   /\ flat(limitup_end[j])
                   /\ -500 < limitup_end[j].p_change /\ limitup_end[j].p_change < 500
                   /\ limitup_end[j].close > limitup_price
                   /\ limitup_end[j].open > limitup_price

\* parking_apron.check: some bar of the last threshold bars rose by more
\* than 9.5%, check_enter holds on its date, and check_internal holds after
\* it.  The loop ends at the first such bar.
parking_apron_check(data, date, threshold) ==
    LET d == upto(data, date)
    IN  IF Len(d) < threshold THEN Ret(FALSE)
        ELSE LET w == tail(d, threshold)
                 ce(i) == check_enter(data, w[i].date, threshold)
                 stops == {i \in 1..Len(w) :
                             /\ w[i].p_change > 950
                             /\ \/ ce(i).exc
                                \/ /\ ce(i).val
                                   /\ check_internal(w, [close |-> w[i].close,
                                                         date |-> w[i].date])}
             IN  IF stops = {} THEN Ret(FALSE)
                 ELSE IF ce(MinOf(stops)).exc THEN Exc
                 ELSE Ret(TRUE)

\* backtrace_ma250.check: in the last threshold bars the close crossed the
\* 250-bar average from below before the highest close, stayed above it
\* from the highest close on, and pulled back to a low 10 to 50 days later
\* on less than half the volume and below 0.8 of the highest close.  The
\* second loop keeps the first row of the lowest close; when it keeps none,
\* strptime('') raises.  A zero volume at the low makes the quotient inf.
backtrace_ma250_check(data, date, threshold) ==
    LET d == upto(data, date)
        n == Len(d)
    IN  IF n < 250 THEN Ret(FALSE)
        ELSE LET closes == [i \in 1..n |-> d[i].close]
                 first  == Max(1, n - threshold + 1)
                 ma250(i) == MA(closes, 250, i)
                 hl     == high_low(d, first, n, HIGHEST_START, LOWEST_ROW_START)
                 highest_row == hl.highest
                 data_front == {i \in first..n : d[i].date < highest_row.date}
                 data_end   == {i \in first..n : d[i].date >= highest_row.date}
                 lows   == {i \in data_end :
                              /\ d[i].close < LOWEST_START
                              /\ \A j \in data_end : d[i].close <= d[j].close}
             IN  IF hl.lowest.volume = 0 \/ highest_row.volume = 0 THEN Ret(FALSE)
                 ELSE IF data_front = {} THEN Ret(FALSE)
                 ELSE IF ~(/\ 250 * d[MinOf(data_front)].close < ma250(MinOf(data_front))
                           /\ 250 * d[MaxOf(data_front)].close > ma250(MaxOf(data_front)))
                 THEN Ret(FALSE)
                 ELSE IF \E i \in data_end : 250 * d[i].close < ma250(i) THEN Ret(FALSE)
                 ELSE IF lows = {} THEN Exc
                 ELSE LET recent_lowest_row == d[MinOf(lows)]
                          date_diff == recent_lowest_row.date - highest_row.date
                      IN  IF ~(10 <= date_diff /\ date_diff <= 50) THEN Ret(FALSE)
                          ELSE Ret(/\ \/ recent_lowest_row.volume = 0
                                      \/ highest_row.volume > 2 * recent_lowest_row.volume
                                   /\ 10 * recent_lowest_row.close < 8 * highest_row.close)

\* The strategy modules of the strategy table.
Strategies ==
    {"enter", "keep_increasing", "parking_apron", "backtrace_ma250",
     "breakthrough_platform", "low_backtrace_increase", "turtle_trade",
     "high_tight_flag", "climax_limitdown", "low_atr"}

\* The column writes of the predicates and of get_rates.  A frame object is
\* "cached" (the series held by the series map) or "private" (an object the
\* callee made); a write is [obj, col]: column col assigned on object obj.

\* A mutant of sliced: the slice is the object it was taken from.
sliced_alias(obj, has_end_date) == obj

\* if end_date is not None: data = data.loc[mask].copy().  Otherwise data
\* still names the caller's object.
sliced(obj, has_end_date) == IF has_end_date THEN "private" ELSE obj

\* enter.check_volume: data.loc[:, 'vol_ma5'] = ..., reached past the length
\* test and the test of the last bar.
writes_check_volume(obj, data, date, threshold) ==
    LET d == upto(data, date)
        n == Len(d)
    IN  IF n < threshold \/ n = 0 THEN {}
        ELSE IF d[n].p_change < 200 \/ d[n].close < d[n].open THEN {}
        ELSE {[obj |-> sliced(obj, TRUE), col |-> "vol_ma5"]}

\* climax_limitdown.check: data.loc[:, 'vol_ma5'] = ...
writes_climax_limitdown(obj, data, date, threshold) ==
    LET d == upto(data, date)
        n == Len(d)
    IN  IF n < threshold \/ n = 0 THEN {}
        ELSE IF d[n].p_change > -950 THEN {}
        ELSE {[obj |-> sliced(obj, TRUE), col |-> "vol_ma5"]}

\* keep_increasing.check (ma30) and backtrace_ma250.check (ma250): the
\* column is assigned once the length test is passed.
writes_ma(obj, data, date, minimum, col) ==
    IF Len(upto(data, date)) < minimum THEN {}
    ELSE {[obj |-> sliced(obj, TRUE), col |-> col]}

\* breakthrough_platform.check: ma60 on its own slice, then check_volume on
\* origin_data for every bar that crosses ma60, up to the first that passes.
writes_breakthrough_platform(obj, data, date, threshold) ==
    LET d == upto(data, date)
        n == Len(d)
    IN  IF n < threshold THEN {}
        ELSE LET closes == [i \in 1..n |-> d[i].close]
                 first  == Max(1, n - threshold + 1)
                 ma60(i) == MA(closes, 60, i)
                 cv(i)  == check_volume(data, d[i].date, threshold)
                 cross  == {i \in first..n :
                              60 * d[i].open < ma60(i) /\ ma60(i) <= 60 * d[i].close}
                 stops  == {i \in cross : cv(i).exc \/ cv(i).val}
                 tried  == IF stops = {} THEN cross
                           ELSE {i \in cross : i <= MinOf(stops)}
             IN  {[obj |-> sliced(obj, TRUE), col |-> "ma60"]}
                     \cup UNION {writes_check_volume(obj, data, d[i].date, threshold) :
                                    i \in tried}

\* rate_stats.get_rates: data = data.loc[mask].copy(), whatever the
\* arguments; sum_pct_change is assigned when more than one bar is left.
writes_rates(obj, code_name, data, threshold) ==
    LET sel == SelectSeq(data, LAMBDA b : b.date >= code_name.date)
    IN  IF Len(head(sel, threshold)) <= 1 THEN {}
        ELSE {[obj |-> sliced(obj, TRUE), col |-> "sum_pct_change"]}

\* The writes of strategy_fun(k, stocks[k], date=date): run_check always
\* passes a date, so end_date is never None.  The other five predicates
\* assign no column.
frame_writes(name, obj, data, date) ==
    CASE name = "enter" -> writes_check_volume(obj, data, date, 60)
      [] name = "climax_limitdown" -> writes_climax_limitdown(obj, data, date, 60)
      [] name = "keep_increasing" -> writes_ma(obj, data, date, 30, "ma30")
      [] name = "backtrace_ma250" -> writes_ma(obj, data, date, 250, "ma250")
      [] name = "breakthrough_platform" ->
             writes_breakthrough_platform(obj, data, date, 60)
      [] OTHER -> {}

\* The columns of the cached series after the writes.
columns_after(cols, writes) ==
    cols \cup {w.col : w \in {x \in writes : x.obj = "cached"}}

\* strategy_fun(k, stocks[k], date=date[, istop=...]): every other parameter
\* takes its default value.
Evaluate(name, data, date, istop) ==
    CASE name = "enter" -> check_volume(data, date, 60)
      [] name = "keep_increasing" -> keep_increasing_check(data, date, 30)
      [] name = "parking_apron" -> parking_apron_check(data, date, 15)
      [] name = "backtrace_ma250" -> backtrace_ma250_check(data, date, 60)
      [] name = "breakthrough_platform" -> breakthrough_platform_check(data, date, 60)
      [] name = "low_backtrace_increase" -> low_backtrace_increase_check(data, date, 60)
      [] name = "turtle_trade" -> check_enter(data, date, 60)
      [] name = "high_tight_flag" -> check_high_tight(data, date, 60, istop)
      [] name = "climax_limitdown" -> climax_limitdown_check(data, date, 60)
      [] OTHER -> check_low_increase(data, date, 250, 10)

\* How far a series length may lie from 0 and from each length test.
MaxSlack == 1

\* Most bars dated after the as-of date.
MaxAfter == 1

\* The lengths the predicates test for: 15, 30, 60 and 250 bars.
LengthTests == {15, 30, 60, 250}

\* The shortest series whose last 60 bars all carry a 250-bar average.
FullWindow == 250 + 60 - 1

\* The shortest series whose bar 20 rows from the end of its tail of 30
\* carries a 30-bar average, while the first bar of the tail carries none.
PartWindow == 30 + 20 - 1

\* Series lengths: within MaxSlack of no bar at all, of each length test, of
\* PartWindow and of FullWindow.
Lengths ==
    {n \in UNION {(t - MaxSlack)..(t + MaxSlack) :
                     t \in LengthTests \cup {0, PartWindow, FullWindow}} :
        n >= 0}

\* Shapes of a series, each flat at 10.00 on a volume of 1000 but for:
\*   rising   every bar 0.10 above the one before;
\*   surge    a last bar that rises 3% on three times the volume;
\*   crash    a last bar that falls 10% on five times the volume;
\*   flag     flat at 5.00, then seven bars of +10% ending ten bars before
\*            the last, then flat;
\*   apron    a bar of +10% three bars before the last, then flat above it;
\*   spike    in the last ten bars a fall of 10% and eight bars of +10%;
\*   pullback in the last sixty bars a dip, a run above the long average to
\*            a high on five times the volume, and a lower plateau after it;
\*   swell    a last bar that rises 3% on 2.4 times the volume;
\*   climb    nine last bars of +10% each;
\*   double   a surge bar five bars before the last, a bar closing at 11.00
\*            two bars after it, and a last surge bar.
Shapes == {"flat", "rising", "surge", "crash", "flag", "apron", "spike", "pullback",
           "swell", "climb", "double"}

Quote(i, o, c, v, p) ==
    [date |-> i, open |-> o, close |-> c, high |-> Max(o, c), low |-> Min(o, c),
     volume |-> v, p_change |-> p]

\* The closes of the seven rising bars of a flag and of the eight of a spike.
FlagCloses == <<550, 605, 666, 732, 805, 886, 974>>

SpikeCloses == <<990, 1089, 1198, 1318, 1450, 1595, 1755, 1931>>

\* The closes of the nine rising bars of a climb.
ClimbCloses == <<1100, 1210, 1331, 1464, 1611, 1772, 1949, 2144, 2358>>

\* Bar i of a series of n bars, dated i; k bars follow it.
Bar(i, n, shape) ==
    LET k == n - i
    IN  CASE shape = "rising" -> Quote(i, 995 + 10 * i, 1000 + 10 * i, 1000, 100)
          [] shape = "surge" /\ k = 0 -> Quote(i, 1000, 1030, 3000, 300)
          [] shape = "crash" /\ k = 0 -> Quote(i, 1000, 900, 5000, -1000)
          [] shape = "flag" /\ k > 16 -> Quote(i, 500, 500, 1000, 0)
          [] shape = "flag" /\ k >= 10 ->
               Quote(i, IF k = 16 THEN 500 ELSE FlagCloses[16 - k], FlagCloses[17 - k],
                     1000, 1000)
          [] shape = "flag" -> Quote(i, 974, 974, 1000, 0)
          [] shape = "apron" /\ k = 3 -> Quote(i, 1000, 1100, 1000, 1000)
          [] shape = "apron" /\ k < 3 -> Quote(i, 1110, 1110, 1000, IF k = 2 THEN 91 ELSE 0)
          [] shape = "spike" /\ k = 8 -> Quote(i, 1000, 900, 1000, -1000)
          [] shape = "spike" /\ k < 8 ->
               Quote(i, IF k = 7 THEN 900 ELSE SpikeCloses[7 - k], SpikeCloses[8 - k],
                     1000, 1000)
          [] shape = "pullback" /\ k = 59 -> Quote(i, 1000, 900, 1000, -1000)
          [] shape = "pullback" /\ k < 59 /\ k > 20 -> Quote(i, 1500, 1500, 1000, 0)
          [] shape = "pullback" /\ k = 20 -> Quote(i, 1500, 3000, 5000, 1000)
          [] shape = "pullback" /\ k < 20 /\ k > 5 -> Quote(i, 2500, 2500, 1000, 0)
          [] shape = "pullback" /\ k <= 5 -> Quote(i, 2000, 2000, 1000, 0)
          [] shape = "swell" /\ k = 0 -> Quote(i, 1000, 1030, 2400, 300)
          [] shape = "climb" /\ k < 9 ->
               Quote(i, IF k = 8 THEN 1000 ELSE ClimbCloses[8 - k], ClimbCloses[9 - k],
                     1000, 1000)
          [] shape = "double" /\ k \in {0, 5} -> Quote(i, 1000, 1030, 3000, 300)
          [] shape = "double" /\ k = 3 -> Quote(i, 1000, 1100, 1000, 1000)
          [] OTHER -> Quote(i, 1000, 1000, 1000, 0)

StrategySeries == {[i \in 1..n |-> Bar(i, n, shape)] : n \in Lengths, shape \in Shapes}

\* One call of a predicate from run_check: a series, an as-of date that up
\* to MaxAfter of its bars lie after, and istop for check_high_tight.
PredInit ==
    /\ SchedIdle
    /\ CacheIdle
    /\ EngineIdle
    /\ RatesIdle
    /\ CalIdle
    /\ BtIdle
    /\ ExtIdle
    /\ st_name \in Strategies
    /\ st_data \in StrategySeries
    /\ st_date \in {Max(0, Len(st_data) - j) : j \in 0..MaxAfter}
    /\ st_istop \in IF st_name = "high_tight_flag" THEN BOOLEAN ELSE {FALSE}
    /\ st_pc = "start"
    /\ st_result = Ret(FALSE)
    /\ st_columns = BaseColumns

\* executor.submit(strategy_fun, k, stocks[k], date=date[, istop=...]), on
\* the cached series itself.
EvaluateStrategy ==
    /\ st_pc = "start"
    /\ st_result' = Evaluate(st_name, st_data, st_date, st_istop)
    /\ st_columns' = columns_after(st_columns,
                                   frame_writes(st_name, "cached", st_data, st_date))
    /\ st_pc' = "done"
    /\ UNCHANGED <<st_name, st_data, st_date, st_istop>>
    /\ UNCHANGED <<schedVars, cacheVars, engineVars, ratesVars, calVars, btVars, extVars>>

\* The backtest of the same key on the same cached series:
\* executor.submit(rate.get_rates, stock, data_all.get(...), backtest_column,
\* len(backtest_column) - 1).
ScoreSeries ==
    /\ st_pc = "done"
    /\ LET code_name == [date |-> st_date, code |-> 1]
           data == [kind |-> "df", bars |-> st_data]
           r == get_rates(code_name, data, 2 + MaxForward, 2 + MaxForward - 1)
       IN  /\ rt_code_name' = code_name
           /\ rt_data' = data
           /\ rt_columns' = 2 + MaxForward
           /\ rt_result' = r.ret
           /\ rt_pc' = IF r.exc THEN "raised" ELSE "done"
           /\ st_columns' = columns_after(st_columns,
                   writes_rates("cached", code_name, st_data, 2 + MaxForward - 1))
    /\ st_pc' = "scored"
    /\ UNCHANGED <<st_name, st_data, st_date, st_istop, st_result>>
    /\ UNCHANGED <<schedVars, cacheVars, engineVars, calVars, btVars, extVars>>

PredNext == EvaluateStrategy \/ ScoreSeries

SpecPred == PredInit /\ [][PredNext]_vars

----------------------------------------------------------------------------
\* Concurrent calendar lookups: the threads of one process call
\* trade_time.is_trade_date(d), each call going through
\* singleton_type.__call__ of stock_trade_date.

\* Lookups made in one process.
MaxLookups == 3

\* The dates asked about: the first and the last day of the horizon.
LookupDates == {DateMin, MaxDay}

\* `with singleton_type.single_lock` entered without waiting for the lock.
can_acquire_nolock(owner, t) == TRUE

\* `with singleton_type.single_lock`: the RLock is free or held by the caller.
can_acquire(owner, t) == owner \in {0, t}

CalInit ==
    /\ argv = [mode |-> "implicit", start |-> DateMin, end |-> DateMin, dates |-> <<>>]
    /\ calFetch \in JobCalFetches
    /\ calInst = NoInstance
    /\ now = [date |-> DateMin + 2, clock |-> OPEN_AT]
    /\ fn = "other"
    /\ pc = "done"
    /\ run_date = DateMin
    /\ idx = 1
    /\ submitted = <<>>
    /\ called = <<>>
    /\ resolved = NoResolved
    /\ logged = FALSE
    /\ job_kind = "latest"
    /\ failDate = NoDay
    /\ finished = <<>>
    /\ CacheIdle
    /\ EngineIdle
    /\ RatesIdle
    /\ PredIdle
    /\ CalIdle
    /\ BtIdle
    /\ ExtIdle

UnchangedByLookup ==
    UNCHANGED <<argv, calFetch, now, fn, pc, run_date, idx, submitted, called,
                resolved, logged, job_kind, failDate, finished,
                snapInst, histInst, tpc, treq, nreq, stocks, interval, tasks,
                doneQ, hdata, snapFetched, histCalls, served,
                workerSingleton, fetchArgs,
                engineVars, ratesVars, predVars, btVars, extVars>>

\* Thread t calls is_trade_date(d): stock_trade_date() is entered.
LookupBegin(t) ==
    /\ cal_tpc[t] = "idle" /\ cal_n < MaxLookups
    /\ \E d \in LookupDates : cal_req' = [cal_req EXCEPT ![t] = d]
    /\ cal_n' = cal_n + 1
    /\ cal_tpc' = [cal_tpc EXCEPT ![t] = "enter"]
    /\ UNCHANGED <<lockOwner, calInst, cal_fetched, cal_served>>
    /\ UnchangedByLookup

\* The lock is taken and hasattr(cls, "_instance") is tested.
LookupAcquire(t) ==
    /\ cal_tpc[t] = "enter"
    /\ can_acquire(lockOwner, t)
    /\ lockOwner' = t
    /\ cal_tpc' = [cal_tpc EXCEPT ![t] =
                      IF calInst.st = "absent" THEN "construct" ELSE "leave"]
    /\ UNCHANGED <<calInst, cal_req, cal_n, cal_fetched, cal_served>>
    /\ UnchangedByLookup

\* cls._instance = super().__call__(): __init__ fetches the calendar.
LookupConstruct(t) ==
    /\ cal_tpc[t] = "construct"
    /\ calInst' = stock_trade_date_init(calFetch)
    /\ cal_fetched' = cal_fetched + 1
    /\ cal_tpc' = [cal_tpc EXCEPT ![t] = "leave"]
    /\ UNCHANGED <<lockOwner, cal_req, cal_n, cal_served>>
    /\ UnchangedByLookup

\* The with statement is left.
LookupRelease(t) ==
    /\ cal_tpc[t] = "leave"
    /\ lockOwner' = 0
    /\ cal_tpc' = [cal_tpc EXCEPT ![t] = "get"]
    /\ UNCHANGED <<calInst, cal_req, cal_n, cal_fetched, cal_served>>
    /\ UnchangedByLookup

\* return cls._instance; get_data(); the membership test of is_trade_date.
LookupReturn(t) ==
    /\ cal_tpc[t] = "get"
    /\ LET r == is_trade_date(calInst, cal_req[t])
       IN  cal_served' = Append(cal_served,
               [thread |-> t, date |-> cal_req[t], exc |-> r.exc, val |-> r.val])
    /\ cal_tpc' = [cal_tpc EXCEPT ![t] = "idle"]
    /\ UNCHANGED <<lockOwner, calInst, cal_req, cal_n, cal_fetched>>
    /\ UnchangedByLookup

CalNext ==
    \E t \in Threads :
        \/ LookupBegin(t) \/ LookupAcquire(t) \/ LookupConstruct(t)
        \/ LookupRelease(t) \/ LookupReturn(t)

SpecCal == CalInit /\ [][CalNext]_vars

----------------------------------------------------------------------------
\* job/backtest_data_daily_job.py: the backtest runs over one row of a
\* strategy table.  The row was inserted with its return columns NULL on its
\* entry date; the instrument's series gains one bar per trading day; each
\* run of process selects the row or not and, if get_rates yields a record,
\* overwrites the row's return columns with it.

\* Backtest runs made over the row.
MaxRuns == 3

\* The entry dates of the row: with and without a bar before the entry bar.
EntryDates == {1, 2}

\* The closes of the series.
BtCloses == {1000, 1100}

BtMaxBars == 2 + MaxForward + 1

\* A mutant of is_unscored: every row of the table is selected.
is_unscored_any(row) == TRUE

\* `column_tail` is NULL, column_tail being the last column of the table.
is_unscored(row) == row[Len(row)] = Null

BtInit ==
    /\ SchedIdle
    /\ CacheIdle
    /\ EngineIdle
    /\ RatesIdle
    /\ PredIdle
    /\ CalIdle
    /\ ExtIdle
    /\ bt_key \in [date : EntryDates, code : {1}]
    /\ bt_bars \in {[i \in 1..Len(q) |-> [date |-> i, close |-> q[i]]] :
                      q \in {c \in SeqsUpTo(BtCloses, BtMaxBars) : Len(c) = bt_key.date}}
    /\ bt_row = [i \in 1..MaxForward |-> Null]
    /\ bt_log = <<>>

UnchangedByBacktest ==
    UNCHANGED <<schedVars, cacheVars, engineVars, ratesVars, predVars, calVars,
                extVars>>

\* A trading day passes: the cached series of the next process holds one
\* more bar.
NewBar ==
    /\ Len(bt_bars) < BtMaxBars
    /\ \E c \in BtCloses :
          bt_bars' = Append(bt_bars, [date |-> Len(bt_bars) + 1, close |-> c])
    /\ UNCHANGED <<bt_key, bt_row, bt_log>>
    /\ UnchangedByBacktest

\* One run of process, on the day of the last bar or on the day after it:
\* the row is selected when its date is before today and its last column is
\* NULL; run_check calls get_rates for it and a record, if one comes back, is
\* written over the row by update_db_from_df.
BacktestRun ==
    /\ Len(bt_log) < MaxRuns
    /\ \E now_date \in {Len(bt_bars), Len(bt_bars) + 1} :
          LET selected == bt_key.date < now_date /\ is_unscored(bt_row)
              r == get_rates(bt_key, [kind |-> "df", bars |-> bt_bars],
                             2 + MaxForward, 2 + MaxForward - 1)
              after == IF selected /\ ~r.exc /\ r.ret.kind = "record"
                       THEN r.ret.rates ELSE bt_row
          IN  /\ bt_row' = after
              /\ bt_log' = Append(bt_log, [selected |-> selected,
                                           before |-> bt_row, after |-> after])
    /\ UNCHANGED <<bt_key, bt_bars>>
    /\ UnchangedByBacktest

BtNext == NewBar \/ BacktestRun

SpecBacktest == BtInit /\ [][BtNext]_vars

----------------------------------------------------------------------------
\* lib/trade_time.py: get_previous_trade_date and get_next_trade_date, called
\* by a process whose calendar singleton is constructed.

\* The largest count passed to get_previous_trade_date.
MaxCount == 2

DtInit ==
    /\ SchedIdle
    /\ CacheIdle
    /\ EngineIdle
    /\ RatesIdle
    /\ PredIdle
    /\ CalIdle
    /\ BtIdle
    /\ PrepIdle
    /\ dt_cal \in {stock_trade_date_init(f) : f \in CalFetches}
    /\ dt_fun = "none"
    /\ dt_date = DateMin
    /\ dt_count = 1
    /\ dt_result = Ret(DateMin)

UnchangedByWalk ==
    UNCHANGED <<schedVars, cacheVars, engineVars, ratesVars, predVars, calVars,
                btVars, prepVars, dt_cal>>

\* A call get_previous_trade_date(d, count).
CallPrevious ==
    /\ \E d \in Days, count \in 1..MaxCount :
          /\ dt_date' = d
          /\ dt_count' = count
          /\ dt_result' = get_previous_trade_date(dt_cal, d, count)
    /\ dt_fun' = "get_previous_trade_date"
    /\ UnchangedByWalk

\* A call get_next_trade_date(d).
CallNext ==
    /\ \E d \in Days :
          /\ dt_date' = d
          /\ dt_result' = get_next_trade_date(dt_cal, d)
    /\ dt_fun' = "get_next_trade_date"
    /\ dt_count' = 1
    /\ UnchangedByWalk

DtNext == CallPrevious \/ CallNext

SpecDates == DtInit /\ [][DtNext]_vars

----------------------------------------------------------------------------
\* job/strategy_data_daily_job.py: prepare(date, strategy), around run_check.
\* The table is seen through its rows of the run's date; chk_stocks = {}
\* stands for stock_hist_data(date).get_data() being None.

\* What a database call can do: succeed, fail inside a handler of
\* lib/database.py that logs and goes on, or raise into prepare.
DbOutcomes == {"ok", "fail", "raise"}

\* The codes of the keys run_check returned.
codes_of(rows) == {rows[i][2] : i \in 1..Len(rows)}

PrepInit ==
    /\ SchedIdle
    /\ CacheIdle
    /\ RatesIdle
    /\ PredIdle
    /\ CalIdle
    /\ BtIdle
    /\ DtIdle
    /\ strategy_fun \in StrategyFuns
    /\ chk_stocks \in {{<<DateMin + 1, c>> : c \in U} : U \in SUBSET Codes}
    /\ stock_tops = NoTops
    /\ is_check_high_tight = FALSE
    /\ future_to_data = [c \in Codes |-> "unsubmitted"]
    /\ completed = <<>>
    /\ chk_data = <<>>
    /\ chk_logged = {}
    /\ chk_pc = "start"
    /\ chk_result = NoResult
    /\ tbl_exists \in BOOLEAN
    /\ tbl_rows \in IF tbl_exists THEN SUBSET Codes ELSE {{}}
    /\ prep_pc = "check"
    /\ prep_logged = {}

UnchangedByPrepare ==
    UNCHANGED <<schedVars, cacheVars, engineVars, ratesVars, predVars, calVars,
                btVars, dtVars>>

\* Lines 66-68: `if stocks_data is None: return`.
PrepareNoData ==
    /\ prep_pc = "check" /\ chk_pc = "start" /\ chk_stocks = {}
    /\ prep_pc' = "done"
    /\ UNCHANGED <<tbl_exists, tbl_rows, prep_logged>>
    /\ UnchangedByPrepare

\* Lines 71-95, once run_check is left.  An exception of run_check is logged
\* by prepare; `if results is None: return` comes before the DELETE; else
\* the rows of the date are deleted where the table exists and the matches
\* are appended.  executeSql and insert_other_db_from_df log a failing
\* statement themselves; a failing append may have written some of the rows.
PrepareStore ==
    /\ prep_pc = "check" /\ chk_pc \in {"returned", "raised"}
    /\ IF chk_pc = "raised"
       THEN /\ prep_logged' = prep_logged \cup {"prepare"}
            /\ UNCHANGED <<tbl_exists, tbl_rows>>
       ELSE IF chk_result.kind = "none"
       THEN UNCHANGED <<tbl_exists, tbl_rows, prep_logged>>
       ELSE \E del \in DbOutcomes, ins \in DbOutcomes \ {"raise"} :
               LET matched == codes_of(chk_result.rows)
                   kept == IF tbl_exists /\ del = "ok" THEN {} ELSE tbl_rows
               IN  /\ del = "fail" => tbl_exists
                   /\ IF del = "raise"
                      THEN /\ ins = "ok"
                           /\ prep_logged' = prep_logged \cup {"prepare"}
                           /\ UNCHANGED <<tbl_exists, tbl_rows>>
                      ELSE /\ ins = "ok" => kept \cap matched = {}
                           /\ \E S \in SUBSET matched :
                                 /\ ins = "ok" <=> S = matched
                                 /\ tbl_rows' = kept \cup S
                                 /\ tbl_exists' = (tbl_exists \/ S # {})
                           /\ prep_logged' =
                                 prep_logged
                                   \cup (IF del = "fail" THEN {"executeSql"} ELSE {})
                                   \cup (IF ins = "fail" THEN {"insert_db_from_df"}
                                         ELSE {})
    /\ prep_pc' = "done"
    /\ UnchangedByPrepare

PrepNext == EngineNext \/ PrepareNoData \/ PrepareStore

SpecPrepare == PrepInit /\ [][PrepNext]_vars

----------------------------------------------------------------------------
\* Properties of the schedule driver.

\* The calendar source's answer: the dates that are trading days.
TradingDays == IF calFetch.kind = "ok" THEN calFetch.dates ELSE {}

\* How often date d occurs in a sequence of dates.
RECURSIVE Count(_, _)
Count(q, d) ==
    IF q = <<>> THEN 0
    ELSE (IF Head(q) = d THEN 1 ELSE 0) + Count(Tail(q), d)

\* How often the command line asks for date d.
Requested(d) ==
    CASE argv.mode = "range" -> IF argv.start <= d /\ d <= argv.end THEN 1 ELSE 0
      [] argv.mode = "list" -> Count(argv.dates, d)
      [] OTHER -> 0

\* C1: when a range-mode or list-mode run has ended, every requested date
\* that is a trading day was submitted once per request of it (so k times
\* when listed k times), and no other date was submitted.
C1_OneTaskPerTradingDay ==
    (pc = "done" /\ argv.mode \in {"range", "list"}) =>
        \A d \in Days :
            Count(submitted, d) = IF d \in TradingDays THEN Requested(d) ELSE 0

\* C1 witness: a finished range run over the whole horizon that holds four
\* trading days and two other days and submitted exactly four tasks.
C1_Witness ==
    /\ pc = "done" /\ argv.mode = "range"
    /\ argv.start = DateMin /\ argv.end >= 5
    /\ Cardinality(TradingDays \cap (argv.start..argv.end)) = 4
    /\ Len(submitted) = 4

\* x is the latest trading day strictly before day d.
IsLatestBefore(x, d) ==
    /\ x \in TradingDays /\ x < d
    /\ \A y \in TradingDays : y < d => y <= x

\* The table of C2 for the pair r returned at time t.
C2_Table(r, t) ==
    /\ ~r.exc
    /\ IF t.date \in TradingDays /\ t.clock >= 15 * 60
       THEN r.run_date = t.date /\ r.run_date_nph = t.date
       ELSE IF t.date \in TradingDays /\ t.clock >= 9 * 60 + 30
       THEN IsLatestBefore(r.run_date, t.date) /\ r.run_date_nph = t.date
       ELSE IsLatestBefore(r.run_date, t.date) /\ r.run_date_nph = r.run_date

----------------------------------------------------------------------------
\* Properties of the singleton caches.

ServedOf(cls) == {i \in 1..Len(served) : served[i].cls = cls}

\* The dates of the requests of class cls begun so far.
ReqDates(cls) ==
    {served[i].date : i \in ServedOf(cls)}
        \cup {treq[t].date : t \in {u \in Threads : tpc[u] # "idle" /\ treq[u].cls = cls}}

\* The instruments of the universe of the series population.
Universe == {k[2] : k \in stocks}

\* C3: while every stock_hist_data request is for one date, no instrument
\* is fetched twice; once the instance is stored every instrument of the
\* universe was fetched exactly once and no other was fetched; and all
\* requests served so far received the same result.
C3_OneFetchPerInstrument ==
    Cardinality(ReqDates("hist")) <= 1 =>
        /\ \A c \in Codes : histCalls[c] <= 1
        /\ histInst.st # "absent" =>
              \A c \in Codes : histCalls[c] = IF c \in Universe THEN 1 ELSE 0
        /\ \A i, j \in ServedOf("hist") : served[i].res = served[j].res

\* C3 witness: two requests for the same date were served the same non-empty
\* map while an instrument had been fetched once.
C3_Witness ==
    \E i, j \in ServedOf("hist") :
        /\ i < j /\ served[i].date = served[j].date
        /\ served[i].res.kind = "map" /\ served[j].res = served[i].res
        /\ \E c \in Codes : histCalls[c] = 1

\* C4: the stored result of a population holds exactly the keys of the
\* instruments whose fetch returned a series; an instrument whose fetch
\* raised or returned None is absent (a result of None holds no key).
C4_ExactlySuccessfulFetches ==
    histInst.st # "absent" =>
        histInst.rows = {k \in stocks : tasks[k[2]] = "ok"}

\* C4 witness: a population in which one fetch raised and another returned
\* a series, which is in the stored map.
C4_Witness ==
    /\ histInst.st = "map"
    /\ \E c1, c2 \in Codes :
          /\ tasks[c1] = "raise" /\ tasks[c2] = "ok"
          /\ \E k \in histInst.rows : k[2] = c2

\* C5: while every request is for one date, fetch_stocks is called at most
\* once, exactly once as soon as the instance exists, and every
\* stock_data(date).get_data() call served so far returned the same value.
C5_SnapshotFetchedOnce ==
    Cardinality(ReqDates("snap") \cup ReqDates("hist")) <= 1 =>
        /\ Len(snapFetched) <= 1
        /\ snapInst.st # "absent" => Len(snapFetched) = 1
        /\ \A i \in ServedOf("snap") : Len(snapFetched) = 1
        /\ \A i, j \in ServedOf("snap") : served[i].res = served[j].res

\* C5 witness: two stock_data calls for one date were served the same
\* snapshot after a single fetch.
C5_Witness ==
    /\ Len(snapFetched) = 1
    /\ \E i, j \in ServedOf("snap") :
          /\ i < j /\ served[i].date = served[j].date
          /\ served[i].res.kind = "df" /\ served[j].res = served[i].res

\* C6 as stated: the snapshot cache is keyed by date, so every served
\* stock_data(d) call had d fetched and, when it returned a snapshot,
\* returned the snapshot of d.
C6_Original ==
    \A i \in ServedOf("snap") :
        /\ \E n \in 1..Len(snapFetched) : snapFetched[n] = served[i].date
        /\ served[i].res.kind = "df" => served[i].res.date = served[i].date

\* C6 amended: the snapshot cache is one instance per process, not keyed by
\* date: at most one date is ever fetched, and every stock_data(d) call,
\* whatever d, returns the data of that one instance, the snapshot of the
\* first date asked for.
C6_OneSnapshotPerProcess ==
    /\ Len(snapFetched) <= 1
    /\ \A i \in ServedOf("snap") :
          /\ served[i].res = get_data(snapInst)
          /\ served[i].res.kind = "df" => served[i].res.date = snapFetched[1]

\* C6 witness: after a snapshot was served for one date, a call for another
\* date was served that same snapshot.
C6_Witness ==
    \E i, j \in ServedOf("snap") :
        /\ i < j /\ served[i].date # served[j].date
        /\ served[i].res.kind = "df" /\ served[i].res.date = served[i].date
        /\ served[j].res = served[i].res

\* C7 as stated: the map returned for a date holds the series anchored to
\* that date: every key carries the requested date.
C7_Original ==
    \A i \in ServedOf("hist") :
        served[i].res.kind = "map" =>
            \A k \in served[i].res.rows : k[1] = served[i].date

\* C7 amended: the series cache is one instance per process: every
\* stock_hist_data(d) call that returns a map returns the one stored map,
\* whose keys carry the date of the process's first snapshot, and no
\* instrument is fetched again for a later date.
C7_OneSeriesMapPerProcess ==
    /\ \A c \in Codes : histCalls[c] <= 1
    /\ \A i \in ServedOf("hist") :
          served[i].res.kind = "map" =>
              /\ served[i].res = get_data(histInst)
              /\ \A k \in served[i].res.rows : k[1] = snapFetched[1]

\* C7 witness: the map populated for one date was returned to a later
\* request for another date, keys unchanged.
C7_Witness ==
    \E i, j \in ServedOf("hist") :
        /\ i < j /\ served[i].date # served[j].date
        /\ served[i].res.kind = "map"
        /\ \A k \in served[i].res.rows : k[1] = served[i].date
        /\ served[j].res = served[i].res

----------------------------------------------------------------------------
\* Properties of the strategy fan-out.

\* The elements of a sequence.
Range(q) == {q[i] : i \in 1..Len(q)}

\* C8: when run_check has returned, every instrument of the universe was
\* evaluated, the result holds exactly the instruments whose predicate
\* returned true (each once; None when there is none), and the instruments
\* whose predicate raised are exactly the logged ones.
C8_ExactlyMatches ==
    chk_pc = "returned" =>
        /\ \A k \in chk_stocks : future_to_data[k[2]] \in PredOutcomes
        /\ Range(chk_result.rows) = {k \in chk_stocks : future_to_data[k[2]] = "true"}
        /\ Len(chk_result.rows) = Cardinality(Range(chk_result.rows))
        /\ chk_result.kind = IF chk_result.rows = <<>> THEN "none" ELSE "list"
        /\ chk_logged = {k[2] : k \in {x \in chk_stocks : future_to_data[x[2]] = "raise"}}

\* C8 witness: run_check returned after the predicate raised for one
\* instrument, which was logged, and matched another, which is in the result.
C8_Witness ==
    /\ chk_pc = "returned"
    /\ \E c1, c2 \in Codes :
          /\ future_to_data[c1] = "raise" /\ future_to_data[c2] = "true"
          /\ c1 \in chk_logged
          /\ \E i \in 1..Len(chk_result.rows) : chk_result.rows[i][2] = c2

----------------------------------------------------------------------------
\* Properties of the forward returns.

\* r is num / den (den > 0) rounded to the nearest integer: no integer is
\* nearer, and of two equally near ones r is the even one.
IsRounded(r, num, den) ==
    LET off == r * den - num
        dist == IF off >= 0 THEN off ELSE -off
    IN  /\ 2 * dist <= den
        /\ 2 * dist = den => r % 2 = 0

\* C10: with k the number of bars dated on or after the entry date, counted
\* up to forwardDays + 1: when k < 2 get_rates returns no record; otherwise
\* it returns a record of the entry date and the code with exactly
\* forwardDays slots, slot i for 1 <= i <= k - 1 being
\* 100 * (close_i - close_0) / close_0 rounded to two decimals, and the slots
\* k..forwardDays being None.
C10_ForwardReturns ==
    rt_pc # "start" =>
        LET after == SelectSeq(rt_data.bars, LAMBDA b : b.date >= rt_code_name.date)
            fwd   == rt_columns - 2
            k     == Min(Len(after), fwd + 1)
        IN  /\ rt_pc = "done"
            /\ IF k < 2 THEN rt_result.kind = "none"
               ELSE /\ rt_result.kind = "record"
                    /\ rt_result.date = rt_code_name.date
                    /\ rt_result.code = rt_code_name.code
                    /\ Len(rt_result.rates) = fwd
                    /\ \A i \in 1..(k - 1) :
                          /\ ~rt_result.rates[i].null
                          /\ IsRounded(rt_result.rates[i].val,
                                       10000 * (after[i + 1].close - after[1].close),
                                       after[1].close)
                    /\ \A i \in k..fwd : rt_result.rates[i] = Null

\* C10 witness: an entry date after the first bar, with the closes 10.00
\* and 11.00 from it on and a horizon of two days, gave the record 10.00, None.
C10_Witness ==
    /\ rt_pc = "done" /\ rt_result.kind = "record"
    /\ rt_code_name.date > 1 /\ rt_columns = 4
    /\ LET after == SelectSeq(rt_data.bars, LAMBDA b : b.date >= rt_code_name.date)
       IN  /\ Len(after) = 2
           /\ after[1].close = 1000 /\ after[2].close = 1100
    /\ rt_result.rates = <<Slot(1000), Null>>

----------------------------------------------------------------------------
\* Properties of the strategy predicates.

\* The minimum number of bars of each predicate, as C9 lists them.
C9_Minimum(name) ==
    CASE name \in {"turtle_trade", "enter", "breakthrough_platform",
                   "high_tight_flag", "low_backtrace_increase",
                   "climax_limitdown"} -> 60
      [] name \in {"backtrace_ma250", "low_atr"} -> 250
      [] name = "keep_increasing" -> 30
      [] OTHER -> 15

\* The bars of the series dated on or before the as-of date.
BarsUpTo == Cardinality({i \in 1..Len(st_data) : st_data[i].date <= st_date})

\* C9: every predicate, called on a series with fewer bars dated on or
\* before the as-of date than its minimum, returns False and does not raise.
C9_ShortSeriesIsFalse ==
    (st_pc = "done" /\ BarsUpTo < C9_Minimum(st_name)) =>
        (~st_result.exc /\ st_result.val = FALSE)

\* C9 witness: the turtle predicate was called on a flat series of 60 bars
\* of which 59 are dated on or before the as-of date, and returned False.
C9_Witness ==
    /\ st_pc = "done" /\ st_name = "turtle_trade"
    /\ Len(st_data) = 60 /\ BarsUpTo = 59
    /\ st_data[60].close = st_data[1].close
    /\ st_result = Ret(FALSE)

----------------------------------------------------------------------------
\* Properties of run_with_args with jobs and malformed command lines
\* (SpecJob).

ExplicitDone == pc = "done" /\ argv.mode \in {"range", "list"}

\* Claim C14, as stated: when the calendar failed to load (the singleton was
\* constructed and holds no calendar), a range or list run ends with a logged
\* error and never as a normal run with zero tasks.
C14_CalendarFailureEndsRun ==
    (ExplicitDone /\ calInst.st \in {"unset", "none"}) => logged

\* Claim C15, as stated: in range and list mode, when the job function raises
\* for one date, the failure is logged and every other submitted date runs
\* to completion.
C15_FailureLoggedOthersRun ==
    (ExplicitDone /\ \E i \in 1..Len(finished) : finished[i].result = "raised")
        => /\ logged
           /\ Len(finished) = Len(submitted)
           /\ \A i \in 1..Len(finished) :
                 /\ finished[i].date = submitted[i]
                 /\ finished[i].date # failDate => finished[i].result = "stored"

\* The implicit call has been made.
ImplicitCalled == pc = "done" /\ argv.mode = "implicit" /\ Len(called) = 1

\* Claim C16, as stated: in implicit mode the date handed to the job follows
\* the kind of data the job needs, whatever its name: a finalized job gets
\* run_date, a latest-snapshot job gets run_date_nph.
C16_Original ==
    ImplicitCalled =>
        called[1].date = IF job_kind = "finalized" THEN resolved.run_date
                         ELSE resolved.run_date_nph

\* Claim C16, amended: in implicit mode the date handed to the job follows
\* the prefix of the function's name alone: save_after_close* gets run_date,
\* save_nph* and every other name get run_date_nph, whatever data the job
\* needs.
C16_DateByName ==
    ImplicitCalled =>
        /\ fn = "save_after_close" => called[1].date = resolved.run_date
        /\ fn # "save_after_close" => called[1].date = resolved.run_date_nph

\* A save_after_close job called during the session of a trading day: it is
\* handed the previous trading day, not today.
C16_Witness ==
    /\ ImplicitCalled
    /\ fn = "save_after_close"
    /\ resolved.run_date # resolved.run_date_nph
    /\ called[1].date = resolved.run_date

\* Claim C18, as stated: run_with_args never propagates an exception to its
\* caller.
C18_NeverPropagates == pc # "raised"

\* Claim C20, as stated: a save_nph job run with explicit dates does for each
\* submitted date what the implicit call run_fun(date, False) does.
C20_ExplicitDateStores ==
    (ExplicitDone /\ fn = "save_nph") =>
        /\ Len(finished) = Len(submitted)
        /\ \A i \in 1..Len(finished) :
              finished[i].result = run_fun(fn, submitted[i], "False", failDate)

----------------------------------------------------------------------------
\* Properties of the concurrent calendar lookups (SpecCal).

\* Claim C13, as stated: when the calendar fetch raises or returns nothing,
\* every call of is_trade_date returns False and none raises.
C13_UnavailableIsFalse ==
    calFetch.kind \in {"none", "raise"} =>
        \A i \in 1..Len(cal_served) : ~cal_served[i].exc /\ ~cal_served[i].val

\* Claim C17: under every interleaving of the threads' lookups the calendar
\* is fetched at most once, exactly once as soon as a lookup has passed the
\* singleton, and all lookups of one date end alike (same value, or the same
\* exception).
C17_FetchedOnceAndStable ==
    /\ cal_fetched <= 1
    /\ (cal_fetched = 1) = (calInst.st # "absent")
    /\ \A t \in Threads : cal_tpc[t] \in {"leave", "get"} => cal_fetched = 1
    /\ cal_served # <<>> => cal_fetched = 1
    /\ \A i, j \in 1..Len(cal_served) :
          cal_served[i].date = cal_served[j].date =>
              /\ cal_served[i].exc = cal_served[j].exc
              /\ cal_served[i].val = cal_served[j].val

\* The first two lookups to end were made by different threads for the same
\* trading day: both returned True and the calendar was fetched once.
C17_Witness ==
    /\ Len(cal_served) >= 2
    /\ cal_served[1].thread # cal_served[2].thread
    /\ cal_served[1].date = cal_served[2].date
    /\ cal_served[1].val /\ cal_served[2].val
    /\ cal_fetched = 1

----------------------------------------------------------------------------
\* Failed snapshot fetches (SpecCache).

\* Claim C19, as stated: after a failed first snapshot fetch (it raised or
\* returned None) the fetch is not repeated, and every stock_data(d).get_data()
\* call hands the failure to its caller as the absent value the method
\* documents; it does not fail on the missing data attribute.
C19_FailureMemoized ==
    snapInst.st \in {"unset", "none"} =>
        /\ Len(snapFetched) = 1
        /\ \A i \in ServedOf("snap") : served[i].res.kind = "none"

----------------------------------------------------------------------------
\* Properties of the backtest runs (SpecBacktest).

\* The row holds a record: some return column is filled.
Written(row) == \E i \in 1..Len(row) : row[i] # Null

Complete(row) == row[Len(row)] # Null

----------------------------------------------------------------------------
\* Frame effects of the predicates and of get_rates (SpecPred).

\* Claim C12: after a predicate evaluation and a backtest computation over
\* a cached series, the series has the columns it was cached with and no
\* other: every derived column was assigned on a private copy.
C12_CachedSeriesUntouched == st_columns = BaseColumns

\* The platform-breakout predicate computed ma60 and, inside check_volume
\* on the series it was handed, vol_ma5; get_rates then produced a record
\* from the same series, having computed sum_pct_change.
C12_Witness ==
    /\ st_pc = "scored"
    /\ st_name = "breakthrough_platform"
    /\ ~st_result.exc
    /\ {w.col : w \in frame_writes(st_name, "cached", st_data, st_date)}
           = {"ma60", "vol_ma5"}
    /\ writes_rates("cached", rt_code_name, st_data, rt_columns - 1) # {}
    /\ rt_result.kind = "record"
    /\ st_columns = BaseColumns

----------------------------------------------------------------------------
\* List mode with an entry that does not parse (SpecJob).

\* Claim C26, as stated: when a list run has ended, every entry of the list
\* that is a trading day was submitted, as often as it is listed, whether or
\* not the list holds an entry that does not parse.
C26_BadEntrySkipped ==
    (pc = "done" /\ argv.mode = "list") =>
        \A d \in TradingDays : Count(submitted, d) = Count(argv.dates, d)
----------------------------------------------------------------------------
\* Properties of the calendar walks.

\* Claim C23, as stated: on a loaded calendar every call returns, without an
\* exception, the count-th trading date strictly before the date
\* (get_previous_trade_date) or the first trading date strictly after it
\* (get_next_trade_date), also when no trading date lies on that side.
C23_WalkReturns ==
    (dt_cal.st = "set" /\ dt_fun # "none") =>
        /\ ~dt_result.exc
        /\ dt_result.val \in dt_cal.dates
        /\ dt_fun = "get_previous_trade_date" =>
              /\ dt_result.val < dt_date
              /\ Cardinality({x \in dt_cal.dates :
                                 dt_result.val <= x /\ x < dt_date}) = dt_count
        /\ dt_fun = "get_next_trade_date" =>
              /\ dt_result.val > dt_date
              /\ \A x \in dt_cal.dates : ~(dt_date < x /\ x < dt_result.val)

----------------------------------------------------------------------------
\* Properties of single predicates (SpecPred).

\* The bars of the series dated on or before the as-of date, in order.
Dated == upto(st_data, st_date)

\* The closes and the volumes of a sequence of bars.
ClosesOf(d) == [i \in 1..Len(d) |-> d[i].close]

VolumesOf(d) == [i \in 1..Len(d) |-> d[i].volume]

\* The volume-surge conditions on the last bar of d: percent-change >= 2,
\* close >= open, close * volume >= 2 * 10^8 and volume at least twice the
\* average volume of the five bars before it.
VolumeSurge(d) ==
    LET n == Len(d)
        last == d[n]
        volumes == VolumesOf(d)
    IN  /\ last.p_change >= 200
        /\ last.close >= last.open
        /\ last.close * last.volume >= 2000000
        /\ 5 * last.volume >= 2 * SumOf(volumes, n - 5, n - 1)

\* Claim C27, as stated: with at least 60 bars dated on or before the as-of
\* date, check_volume returns true exactly when the four conditions hold on
\* the last bar.
C27_Original ==
    (st_name = "enter" /\ st_pc # "start" /\ BarsUpTo >= 60) =>
        LET d == Dated
        IN  ~st_result.exc /\ (st_result.val <=> VolumeSurge(d))

\* C27, corrected: with at least 61 bars dated on or before the as-of date,
\* check_volume returns true exactly when the four conditions hold on the
\* last bar, the average being the one of the five bars before the last;
\* with exactly 60 bars it returns false.
C27_SixtyOneBars ==
    (st_name = "enter" /\ st_pc # "start") =>
        LET d == Dated
        IN  /\ Len(d) >= 61 => (~st_result.exc /\ (st_result.val <=> VolumeSurge(d)))
            /\ Len(d) = 60 => st_result = Ret(FALSE)

\* C27 witness: check_volume returned true on a series of at least 61 bars
\* whose last bar opens at 10.00, closes at 10.30 and trades three times
\* the average volume of the five bars before it.
C27_Witness ==
    /\ st_name = "enter" /\ st_pc # "start" /\ BarsUpTo >= 61
    /\ LET d == Dated
           n == Len(d)
       IN  /\ d[n].open = 1000 /\ d[n].close = 1030 /\ d[n].volume = 3000
           /\ SumOf(VolumesOf(d), n - 5, n - 1) = 5 * 1000
    /\ st_result = Ret(TRUE)

\* Claim C28, as stated: with at least 30 bars dated on or before the as-of
\* date, keep_increasing.check returns true exactly when the 30-bar averages
\* of the close at rows 0, 10, 20 and 29 of the last 30 bars exist, rise
\* strictly, and the last is at least 1.2 times the first.
C28_GenuineAverages ==
    (st_name = "keep_increasing" /\ st_pc # "start" /\ BarsUpTo >= 30) =>
        LET d == Dated
            n == Len(d)
            closes == ClosesOf(d)
            Sum30(i) == SumOf(closes, i - 29, i)
        IN  /\ ~st_result.exc
            /\ st_result.val <=>
                  /\ n - 29 >= 30
                  /\ Sum30(n - 29) < Sum30(n - 19)
                  /\ Sum30(n - 19) < Sum30(n - 9)
                  /\ Sum30(n - 9) < Sum30(n)
                  /\ 5 * Sum30(n) >= 6 * Sum30(n - 29)

\* Sixty times the 60-bar average at bar i of a sequence of closes, 0 where
\* fewer than 60 bars end at i.
Ma60(closes, i) == IF i < 60 THEN 0 ELSE SumOf(closes, i - 59, i)

\* Bar i of d opens below the average, closes on or above it, and the
\* volume-surge predicate holds on its date.
Candidate(d, closes, i) ==
    /\ 60 * d[i].open < Ma60(closes, i) /\ Ma60(closes, i) <= 60 * d[i].close
    /\ i >= 61 /\ VolumeSurge(SubSeq(d, 1, i))

\* -0.05 < (MA60 - close) / MA60 < 0.2 at bar j, where MA60 > 0.
InBand(d, closes, j) ==
    Ma60(closes, j) > 0 =>
        /\ 20 * (Ma60(closes, j) - 60 * d[j].close) > -Ma60(closes, j)
        /\ 5 * (Ma60(closes, j) - 60 * d[j].close) < Ma60(closes, j)

\* C29: breakthrough_platform.check returns true exactly when some bar of
\* the 60-bar window is a candidate (the volume surge on its date needing 61
\* bars up to it) such that every window bar before it is in the band.
C29_AnyQualifyingBar ==
    (st_name = "breakthrough_platform" /\ st_pc # "start") =>
        LET d == Dated
            n == Len(d)
            closes == ClosesOf(d)
        IN  /\ ~st_result.exc
            /\ st_result.val <=>
                  \E i \in Max(1, n - 59)..n :
                     /\ Candidate(d, closes, i)
                     /\ \A j \in Max(1, n - 59)..(i - 1) : InBand(d, closes, j)

\* C29 witness: the predicate returned true on a window with two candidate
\* bars, the later of which has a bar outside the band before it.
C29_Witness ==
    /\ st_name = "breakthrough_platform" /\ st_pc # "start"
    /\ st_result = Ret(TRUE)
    /\ LET d == Dated
           n == Len(d)
           closes == ClosesOf(d)
       IN  \E i, k \in Max(1, n - 59)..n :
              /\ i < k /\ Candidate(d, closes, i) /\ Candidate(d, closes, k)
              /\ \E j \in (i + 1)..(k - 1) : ~InBand(d, closes, j)

\* Claim C30, as stated: with at least 250 bars dated on or before the
\* as-of date, check_low_increase returns true exactly when over the last
\* ten bars the mean absolute percent-change is below 10 and
\* (max close - min close) / min close > 1.1, max and min being the highest
\* and the lowest close of the ten bars.
C30_TrueExtremes ==
    (st_name = "low_atr" /\ st_pc # "start" /\ BarsUpTo >= 250) =>
        LET w == tail(Dated, 10)
            closes == {w[i].close : i \in 1..Len(w)}
            changes == [i \in 1..Len(w) |->
                          IF w[i].p_change >= 0 THEN w[i].p_change ELSE -w[i].p_change]
        IN  /\ ~st_result.exc
            /\ st_result.val <=>
                  /\ SumOf(changes, 1, Len(w)) < 1000 * Len(w)
                  /\ 10 * (MaxOf(closes) - MinOf(closes)) > 11 * MinOf(closes)

----------------------------------------------------------------------------
\* Properties of prepare (SpecPrepare).

\* Claim C24, as stated: when prepare has run the predicates and completed
\* with nothing logged, the table's rows of the date are exactly the
\* instruments matched by this run, whatever rows were there before and
\* whatever the matches, none at all included.
C24_RowsAreThisRunsMatches ==
    (prep_pc = "done" /\ chk_pc = "returned" /\ prep_logged = {}) =>
        tbl_rows = codes_of(chk_data)

----------------------------------------------------------------------------
\* Properties of the fan-out stages (SpecStages) and of one population
\* (SpecPool, FairPool).

\* C21: a stage hands its result over (the series instance is stored, or
\* run_check has returned) only when every future submitted for the stage
\* has completed and been yielded, and the result is what was gathered
\* until then; afterwards the result never changes.
C21_Barrier ==
    /\ [](/\ histInst.st # "absent" =>
              /\ \A c \in Codes : tasks[c] # "pending"
              /\ doneQ = <<>>
              /\ histInst.rows = hdata
          /\ chk_pc = "returned" =>
              /\ \A c \in Codes : future_to_data[c] # "pending"
              /\ completed = <<>>
              /\ chk_result.rows = chk_data)
    /\ [][/\ histInst.st # "absent" => histInst' = histInst
          /\ chk_pc = "returned" => chk_result' = chk_result]_vars

\* C21 witness: a population whose two fetches ended, one with a series and
\* one with an exception, was handed to a caller with the one series.
C21_Witness ==
    /\ histInst.st = "map"
    /\ \E c, e \in Codes : tasks[c] = "ok" /\ tasks[e] = "raise"
    /\ Cardinality(histInst.rows) = 1
    /\ \E i \in 1..Len(served) :
          served[i].cls = "hist" /\ served[i].res.kind = "map"
              /\ served[i].res.rows = histInst.rows

\* Claim C22, as stated: a thread that waits for its pool inside the
\* stock_hist_data constructor eventually leaves the constructor, the lock
\* free again, whether or not the fetch tasks obtain a singleton.
C22_PopulationReturns ==
    \A t \in Threads : (tpc[t] = "pool") ~> (tpc[t] # "pool" /\ lockOwner = 0)

\* C25: every fetch of a population was submitted with the one pair the
\* constructor computed: the start 3 * 365 days before the snapshot date,
\* and a cache flag that is False exactly when the snapshot date is today,
\* today is a trading day and the clock is at or after 09:30 and before
\* 15:00.
C25_OnePairPerPopulation ==
    \A k \in stocks :
        /\ fetchArgs[k[2]] = interval
        /\ interval.date_start = k[1] - 3 * 365
        /\ interval.is_cache =
              ~(/\ k[1] = now.date
                /\ calFetch.kind = "ok" /\ now.date \in calFetch.dates
                /\ now.clock >= 9 * 60 + 30 /\ now.clock < 15 * 60)

\* C25 witness: on a trading day at noon both instruments of today's
\* snapshot were fetched with the cache flag False.
C25_Witness ==
    /\ now.clock = 12 * 60 /\ now.date \in calFetch.dates
    /\ \A c \in Codes :
          /\ <<now.date, c>> \in stocks
          /\ tasks[c] \in HistFetches
          /\ fetchArgs[c].is_cache = FALSE

====
